---------------------------- MODULE Spec2Model ----------------------------
(***************************************************************************)
(* MyPC-MCP: the zone-scoped file tools (src/tools/files.py) and the       *)
(* download gateway and request router (src/main.py).                      *)
(*                                                                         *)
(* A path, a file's content and every other Python str is a sequence of    *)
(* one-character strings: <<"/", "d">> is the str "/d".  The os.path       *)
(* functions the code calls are modelled by what posixpath and ntpath do,  *)
(* chosen by os_name as Python chooses them.                               *)
(***************************************************************************)
EXTENDS Integers, Sequences, FiniteSets, TLC

VARIABLES
    os_name,      \* "posix" or "nt": the platform the process runs on
    SAFE_ZONES,   \* main.py:65, config.get("safe_zones", None); fixed at start
    send2trash,   \* whether the send2trash package can be imported
    fs,           \* the disk: existing node -> [kind, data]
    last,         \* the last finished tool call or HTTP request
    steps,        \* calls made so far
    at_start,     \* what the zone checks answered when the server started
    calls,        \* the edit_file calls in progress side by side, if any
    SSH_CONFIG    \* main.py:66, config.get("ssh", None); fixed at start

vars ==
    <<os_name, SAFE_ZONES, send2trash, fs, last, steps, at_start, calls,
      SSH_CONFIG>>

----------------------------------------------------------------------------
(* Bounds of the model. *)

\* Longest path string drawn for the zone check, in characters.
MaxPathLen == 4
\* Calls in one run of the file tools.
MaxSteps == 2
\* Longest file content kept on the modelled disk, in characters.
MaxContentLen == 3

----------------------------------------------------------------------------
(* Python str operations on sequences of characters. *)

\* Python's None where a character may stand.
None == "None"

\* A value that may be None: NoValue is None, Some(v) is v.
NoValue == [some |-> FALSE, val |-> <<>>]
Some(v) == [some |-> TRUE, val |-> v]

startswith(s, prefix) ==
    /\ Len(prefix) <= Len(s)
    /\ SubSeq(s, 1, Len(prefix)) = prefix

endswith(s, suffix) ==
    /\ Len(suffix) <= Len(s)
    /\ SubSeq(s, Len(s) - Len(suffix) + 1, Len(s)) = suffix

\* s[i:] with a 1-based start.
From(s, i) == SubSeq(s, i, Len(s))

\* str.split(sep) for a one-character sep: a sequence of strs, never empty.
RECURSIVE split(_, _)
split(s, c) ==
    IF \A i \in 1..Len(s) : s[i] # c
    THEN <<s>>
    ELSE LET i == CHOOSE j \in 1..Len(s) :
                      s[j] = c /\ \A k \in 1..(j - 1) : s[k] # c
         IN  <<SubSeq(s, 1, i - 1)>> \o split(From(s, i + 1), c)

\* sep.join(comps)
RECURSIVE join_str(_, _)
join_str(comps, c) ==
    IF comps = <<>> THEN <<>>
    ELSE IF Len(comps) = 1 THEN comps[1]
    ELSE comps[1] \o <<c>> \o join_str(Tail(comps), c)

\* str.lstrip(c)
RECURSIVE lstrip(_, _)
lstrip(s, c) == IF s # <<>> /\ s[1] = c THEN lstrip(Tail(s), c) ELSE s

\* str.replace(a, b) for one-character a and b.
RECURSIVE replace_char(_, _, _)
replace_char(s, a, b) ==
    IF s = <<>> THEN <<>>
    ELSE <<IF s[1] = a THEN b ELSE s[1]>> \o replace_char(Tail(s), a, b)

lower_char(c) ==
    CASE c = "D" -> "d"
      [] c = "C" -> "c"
      [] c = "H" -> "h"
      [] c = "O" -> "o"
      [] c = "W" -> "w"
      [] c = "A" -> "a"
      [] c = "L" -> "l"
      [] c = "I" -> "i"
      [] c = "E" -> "e"
      [] OTHER -> c

\* str.lower()
RECURSIVE lower(_)
lower(s) == IF s = <<>> THEN <<>> ELSE <<lower_char(s[1])>> \o lower(Tail(s))

\* All strs over alphabet A of length at most n.
RECURSIVE StrsUpTo(_, _)
StrsUpTo(A, n) ==
    IF n = 0 THEN {<<>>}
    ELSE LET shorter == StrsUpTo(A, n - 1)
         IN  shorter \cup {Append(s, c) : s \in shorter, c \in A}

----------------------------------------------------------------------------
(* os.path, as posixpath (os_name = "posix") or ntpath (os_name = "nt"). *)

\* os.sep
sep == IF os_name = "nt" THEN "\\" ELSE "/"

\* os.altsep (None on posix)
altsep == IF os_name = "nt" THEN "/" ELSE None

\* The process's working directory, os.getcwd().
getcwd ==
    IF os_name = "nt" THEN <<"C", ":", "\\", "w">> ELSE <<"/", "w">>

\* The user's home directory, what os.path.expanduser("~") returns.
userhome ==
    IF os_name = "nt" THEN <<"C", ":", "\\", "h">> ELSE <<"/", "h">>

\* ntpath.splitdrive for a drive-letter path (UNC shares are not drawn).
splitdrive(p) ==
    IF os_name = "nt" /\ Len(p) >= 2 /\ p[2] = ":"
    THEN <<SubSeq(p, 1, 2), From(p, 3)>>
    ELSE <<<<>>, p>>

\* os.path.isabs
isabs(p) ==
    IF os_name = "nt"
    THEN LET rest == replace_char(splitdrive(p)[2], "/", "\\")
         IN  rest # <<>> /\ rest[1] = "\\"
    ELSE startswith(p, <<"/">>)

\* posixpath.normpath's loop over the components.
RECURSIVE posix_comps(_, _, _)
posix_comps(comps, new_comps, initial_slashes) ==
    IF comps = <<>> THEN new_comps
    ELSE LET comp == Head(comps)
             n == Len(new_comps)
         IN  IF comp = <<>> \/ comp = <<".">>
             THEN posix_comps(Tail(comps), new_comps, initial_slashes)
             ELSE IF \/ comp # <<".", ".">>
                     \/ (initial_slashes = 0 /\ n = 0)
                     \/ (n > 0 /\ new_comps[n] = <<".", ".">>)
             THEN posix_comps(Tail(comps), Append(new_comps, comp),
                              initial_slashes)
             ELSE IF n > 0
             THEN posix_comps(Tail(comps), SubSeq(new_comps, 1, n - 1),
                              initial_slashes)
             ELSE posix_comps(Tail(comps), new_comps, initial_slashes)

posix_normpath(path) ==
    IF path = <<>> THEN <<".">>
    ELSE LET initial_slashes ==
                 IF ~startswith(path, <<"/">>) THEN 0
                 ELSE IF startswith(path, <<"/", "/">>)
                         /\ ~startswith(path, <<"/", "/", "/">>)
                 THEN 2 ELSE 1
             comps == posix_comps(split(path, "/"), <<>>, initial_slashes)
             joined == join_str(comps, "/")
             res == (IF initial_slashes = 0 THEN <<>>
                     ELSE IF initial_slashes = 1 THEN <<"/">>
                     ELSE <<"/", "/">>) \o joined
         IN  IF res = <<>> THEN <<".">> ELSE res

\* ntpath.normpath's loop over the components.
RECURSIVE nt_comps(_, _, _)
nt_comps(comps, done, rooted) ==
    IF comps = <<>> THEN done
    ELSE LET comp == Head(comps)
             n == Len(done)
         IN  IF comp = <<>> \/ comp = <<".">>
             THEN nt_comps(Tail(comps), done, rooted)
             ELSE IF comp = <<".", ".">>
             THEN IF n > 0 /\ done[n] # <<".", ".">>
                  THEN nt_comps(Tail(comps), SubSeq(done, 1, n - 1), rooted)
                  ELSE IF n = 0 /\ rooted
                  THEN nt_comps(Tail(comps), done, rooted)
                  ELSE nt_comps(Tail(comps), Append(done, comp), rooted)
             ELSE nt_comps(Tail(comps), Append(done, comp), rooted)

nt_normpath(path) ==
    LET p == replace_char(path, "/", "\\")
        sd == splitdrive(p)
        rooted == startswith(sd[2], <<"\\">>)
        prefix == IF rooted THEN sd[1] \o <<"\\">> ELSE sd[1]
        rest == lstrip(sd[2], "\\")
        comps == nt_comps(split(rest, "\\"), <<>>, rooted)
    IN  IF prefix = <<>> /\ comps = <<>> THEN <<".">>
        ELSE prefix \o join_str(comps, "\\")

\* os.path.normpath
normpath(path) ==
    IF os_name = "nt" THEN nt_normpath(path) ELSE posix_normpath(path)

\* os.path.join(a, b)
join(a, b) ==
    IF os_name = "nt"
    THEN LET sa == splitdrive(a)
             sb == splitdrive(b)
             b_rooted == sb[2] # <<>> /\ sb[2][1] \in {"\\", "/"}
         IN  IF b_rooted
             THEN (IF sb[1] # <<>> \/ sa[1] = <<>> THEN sb[1] ELSE sa[1])
                      \o sb[2]
             ELSE IF sb[1] # <<>> /\ lower(sb[1]) # lower(sa[1])
             THEN b
             ELSE LET drive == IF sb[1] # <<>> THEN sb[1] ELSE sa[1]
                      pa == sa[2]
                      glue == IF pa # <<>> /\ pa[Len(pa)] \notin {"\\", "/"}
                              THEN <<"\\">> ELSE <<>>
                  IN  IF pa = <<>> /\ drive # <<>> /\ drive[Len(drive)] # ":"
                      THEN drive \o <<"\\">> \o sb[2]
                      ELSE drive \o pa \o glue \o sb[2]
    ELSE IF startswith(b, <<"/">>) THEN b
    ELSE IF a = <<>> \/ endswith(a, <<"/">>) THEN a \o b
    ELSE a \o <<"/">> \o b

\* The path ntpath.abspath hands to normpath.
nt_fullpath(path) ==
    LET sd == splitdrive(path)
        rooted == sd[2] # <<>> /\ sd[2][1] \in {"\\", "/"}
        cwd_drive == SubSeq(getcwd, 1, 2)
    IN  IF sd[1] # <<>> /\ rooted THEN path
        ELSE IF rooted THEN cwd_drive \o path
        ELSE IF sd[1] # <<>> /\ lower(sd[1]) # lower(cwd_drive)
        THEN sd[1] \o <<"\\">> \o sd[2]
        ELSE getcwd \o <<"\\">> \o sd[2]

\* abspath that makes the path absolute and resolves no "." or "..".
abspath_unresolved(path) ==
    IF os_name = "nt" THEN nt_fullpath(path)
    ELSE IF startswith(path, <<"/">>) THEN path
    ELSE getcwd \o <<"/">> \o path

\* abspath putting the working directory before every path, absolute or
\* not.
abspath_always_cwd(path) ==
    IF os_name = "nt" THEN nt_normpath(getcwd \o <<"\\">> \o path)
    ELSE posix_normpath(getcwd \o <<"/">> \o path)

\* os.path.abspath: the working directory is put before a relative path
\* (on nt the current drive before a rooted one), then normpath.
abspath(path) ==
    IF os_name = "nt" THEN nt_normpath(nt_fullpath(path))
    ELSE posix_normpath(IF startswith(path, <<"/">>) THEN path
                        ELSE getcwd \o <<"/">> \o path)

\* normcase folding no letter: on nt only "/" becomes "\".
normcase_no_fold(s) ==
    IF os_name = "nt" THEN replace_char(s, "/", "\\") ELSE s

\* os.path.normcase
normcase(s) ==
    IF os_name = "nt" THEN lower(replace_char(s, "/", "\\")) ELSE s

\* os.path.expanduser for the "~/name" paths of the default zones.
expanduser(p) ==
    IF startswith(p, <<"~">>) /\ (Len(p) = 1 \/ p[2] = "/")
    THEN userhome \o From(p, 2)
    ELSE p

\* s.rfind(c) over s[:i], 1-based; 0 when c is not there.
RECURSIVE rfind(_, _, _)
rfind(s, c, i) == IF i = 0 \/ s[i] = c THEN i ELSE rfind(s, c, i - 1)

\* The length of s[:i] without the run of c at its end, i if it is all c.
RECURSIVE rstrip_or(_, _, _, _)
rstrip_or(s, c, i, j) ==
    IF j = 0 THEN i
    ELSE IF s[j] = c THEN rstrip_or(s, c, i, j - 1) ELSE j

head_len(q) == rstrip_or(q, sep, rfind(q, sep, Len(q)), rfind(q, sep, Len(q)))

\* os.path.basename
basename(p) ==
    LET sd == splitdrive(p)
    IN  From(sd[2], 1 + rfind(IF os_name = "nt"
                              THEN replace_char(sd[2], "/", "\\") ELSE p,
                              sep, Len(sd[2])))

\* os.path.dirname
dirname(p) ==
    LET sd == splitdrive(p)
    IN  sd[1] \o SubSeq(sd[2], 1,
                   head_len(IF os_name = "nt"
                            THEN replace_char(sd[2], "/", "\\") ELSE p))

----------------------------------------------------------------------------
(* Names the configuration and the code spell out. *)

Documents == <<"D", "o", "c", "u", "m", "e", "n", "t", "s">>
Downloads == <<"D", "o", "w", "n", "l", "o", "a", "d", "s">>
Desktop == <<"D", "e", "s", "k", "t", "o", "p">>

\* files.py:28
DEFAULT_WORKSPACE == <<"D", ":", "\\", "A", "L", "I", "C", "E">>

\* files.py:31-35
DEFAULT_SAFE_ZONES ==
    << expanduser(<<"~", "/">> \o Documents),
       expanduser(<<"~", "/">> \o Downloads),
       expanduser(<<"~", "/">> \o Desktop) >>

\* [os.path.abspath(z) for z in zs]
RECURSIVE abspath_each(_)
abspath_each(zs) ==
    IF zs = <<>> THEN <<>> ELSE <<abspath(zs[1])>> \o abspath_each(Tail(zs))

\* Python truth of a list-or-None value: None and [] are false.
truthy(v) == v.some /\ v.val # <<>>

----------------------------------------------------------------------------
(* The zone check of the file tools, files.py:52-89. *)

\* The tools' zones with only those that are on the disk now.
allowed_zones_on_disk ==
    SelectSeq(abspath_each(IF truthy(SAFE_ZONES) THEN SAFE_ZONES.val
                           ELSE DEFAULT_SAFE_ZONES),
              LAMBDA z : normcase(z) \in DOMAIN fs)

\* files.py:52-54: safe_zones or DEFAULT_SAFE_ZONES, each made absolute.
allowed_zones ==
    abspath_each(IF truthy(SAFE_ZONES) THEN SAFE_ZONES.val
                 ELSE DEFAULT_SAFE_ZONES)

\* The loop body with the separator never appended.
zone_holds_no_sep(norm_path, zone) ==
    LET holds(norm_zone) ==
            \/ norm_path = norm_zone
            \/ startswith(norm_path, norm_zone)
    IN  holds(normcase(abspath(zone)))

\* files.py:66-81 and main.py:86-99: one turn of the loop over the zones.
zone_holds(norm_path, zone) ==
    LET holds(norm_zone) ==
            \/ norm_path = norm_zone
            \/ startswith(norm_path,
                          IF ~endswith(norm_zone, <<sep>>)
                          THEN norm_zone \o <<sep>> ELSE norm_zone)
    IN  holds(normcase(abspath(zone)))

\* The loop over the zones: some zone holds the path.
in_zones(norm_path, zones) ==
    \E i \in 1..Len(zones) : zone_holds(norm_path, zones[i])

\* files.py:59-85
is_in_safe_zone(path) == in_zones(normcase(abspath(path)), allowed_zones)

\* The zone lines cut to the first zone.
get_safe_zones_str_first == <<allowed_zones[1]>>

\* files.py:87-89: one "  - zone" line per zone, in order.
get_safe_zones_str == allowed_zones

----------------------------------------------------------------------------
(* The zone check of the download gateway, main.py:68-103. *)

\* The gateway's zones with the defaults taken only when there is no entry.
main_zones_none_only ==
    abspath_each(IF ~SAFE_ZONES.some
                 THEN << expanduser(<<"~", "/">> \o Documents),
                         expanduser(<<"~", "/">> \o Downloads),
                         expanduser(<<"~", "/">> \o Desktop) >>
                 ELSE SAFE_ZONES.val)

\* main.py:70-79
main_zones ==
    abspath_each(IF ~truthy(SAFE_ZONES)
                 THEN << expanduser(<<"~", "/">> \o Documents),
                         expanduser(<<"~", "/">> \o Downloads),
                         expanduser(<<"~", "/">> \o Desktop) >>
                 ELSE SAFE_ZONES.val)

\* main.py:68-103
is_safe_path(path) == in_zones(normcase(abspath(path)), main_zones)

----------------------------------------------------------------------------
(* The configuration helpers of utils/config.py.  main.py does not import   *)
(* them: it reads config.json itself (main.py:24-32, 63-65).               *)

\* os.environ: one variable, H, holding the user's home directory.
environ == [name \in { <<"H">> } |-> userhome]

\* os.environ.get(name, default)
environ_get(name, default) ==
    IF name \in DOMAIN environ THEN environ[name] ELSE default

\* The position of the first c in s, 0 when there is none.
find(s, c) ==
    IF \E i \in 1..Len(s) : s[i] = c
    THEN CHOOSE i \in 1..Len(s) : s[i] = c /\ \A k \in 1..(i - 1) : s[k] # c
    ELSE 0

\* config.py:32, re.sub(r'%([^%]+)%', ...): each %name% from the left becomes
\* the variable's value, or stays when there is no such variable.
RECURSIVE expand_percent(_)
expand_percent(path) ==
    IF path = <<>> THEN <<>>
    ELSE IF path[1] # "%" THEN <<path[1]>> \o expand_percent(Tail(path))
    ELSE LET closed(rest, j) ==
                 IF j <= 1 THEN <<"%">> \o expand_percent(rest)
                 ELSE environ_get(SubSeq(rest, 1, j - 1),
                                  SubSeq(path, 1, j + 1))
                          \o expand_percent(From(rest, j + 1))
         IN  closed(Tail(path), find(Tail(path), "%"))

\* The characters of the model's paths that \w does not match.
not_word == {"/", "\\", ".", "~", "$", "%", "{", "}", ":", " ", "=", "&", "+"}

\* The length of the longest run of \w characters s begins with.
RECURSIVE word_len(_)
word_len(s) ==
    IF s = <<>> \/ s[1] \in not_word THEN 0 ELSE 1 + word_len(Tail(s))

\* config.py:35, os.path.expandvars: each $name and ${name} from the left
\* becomes the variable's value, or stays when there is no such variable.
RECURSIVE expandvars(_)
expandvars(path) ==
    IF path = <<>> THEN <<>>
    ELSE IF path[1] # "$" THEN <<path[1]>> \o expandvars(Tail(path))
    ELSE LET rest == Tail(path)
             braced(j) ==
                 IF j = 0 THEN path
                 ELSE environ_get(SubSeq(rest, 2, j - 1),
                                  SubSeq(path, 1, j + 1))
                          \o expandvars(From(rest, j + 1))
             plain(n) ==
                 IF n = 0 THEN <<"$">> \o expandvars(rest)
                 ELSE environ_get(SubSeq(rest, 1, n), SubSeq(path, 1, n + 1))
                          \o expandvars(From(rest, n + 1))
         IN  IF rest # <<>> /\ rest[1] = "{" THEN braced(find(rest, "}"))
             ELSE plain(word_len(rest))

\* config.py:14-40
expand_env_vars(path) ==
    IF path = <<>> THEN path
    ELSE expanduser(expandvars(expand_percent(path)))

\* config.py:43-53
RECURSIVE expand_env_in_list(_)
expand_env_in_list(paths) ==
    IF paths = <<>> THEN <<>>
    ELSE <<expand_env_vars(paths[1])>> \o expand_env_in_list(Tail(paths))

\* config.py:292-311, for the value of the configuration's safe_zones key
\* (NoValue when the key is missing).
get_safe_zones(safe_zones) ==
    expand_env_in_list(IF ~truthy(safe_zones)
                       THEN << <<"~", "/">> \o Documents,
                               <<"~", "/">> \o Downloads,
                               <<"~", "/">> \o Desktop >>
                       ELSE safe_zones.val)

----------------------------------------------------------------------------
(* The disk.  A disk f maps each existing node to its entry; a node is the  *)
(* absolute path the operating system resolves a path string to.  There    *)
(* are no symbolic links.                                                  *)

Dir == [kind |-> "dir", data |-> <<>>]
File(data) == [kind |-> "file", data |-> data]

is_dir(f, n) == n \in DOMAIN f /\ f[n].kind = "dir"
is_file(f, n) == n \in DOMAIN f /\ f[n].kind = "file"

\* The directory that holds node n (a volume's root holds itself).
parent(n) == dirname(n)

\* Node m is n or lies below n.
below(n, m) ==
    \/ m = n
    \/ startswith(m, IF endswith(n, <<sep>>) THEN n ELSE n \o <<sep>>)

posix_node(names) == <<"/">> \o join_str(names, "/")

\* Path resolution by a POSIX kernel: a component is looked up only in a
\* directory that exists, and ".." is the parent of the directory reached.
RECURSIVE posix_walk(_, _, _, _)
posix_walk(f, comps, names, ok) ==
    IF comps = <<>> THEN [ok |-> ok, node |-> posix_node(names)]
    ELSE IF Head(comps) = <<>> THEN posix_walk(f, Tail(comps), names, ok)
    ELSE posix_walk(f, Tail(comps),
             IF Head(comps) = <<".">> THEN names
             ELSE IF Head(comps) = <<".", ".">>
             THEN (IF names = <<>> THEN names
                   ELSE SubSeq(names, 1, Len(names) - 1))
             ELSE Append(names, Head(comps)),
             ok /\ is_dir(f, posix_node(names)))

\* A path that ends in "/" names a directory or nothing.
posix_resolved(f, p, w) ==
    [ok |-> w.ok /\ (endswith(p, <<"/">>) /\ w.node \in DOMAIN f
                         => is_dir(f, w.node)),
     node |-> w.node]

\* The node path string p names on disk f, and whether the way to it exists.
\* Windows resolves a path by its text and ignores letter case.
resolve(f, p) ==
    IF p = <<>> THEN [ok |-> FALSE, node |-> <<>>]
    ELSE IF os_name = "nt" THEN [ok |-> TRUE, node |-> normcase(abspath(p))]
    ELSE posix_resolved(f, p,
             posix_walk(f, split(p, "/"),
                        IF startswith(p, <<"/">>) THEN <<>>
                        ELSE posix_comps(split(getcwd, "/"), <<>>, 1),
                        TRUE))

\* What resolved path r is on disk f.
found(f, r) == r.ok /\ r.node \in DOMAIN f
found_dir(f, r) == r.ok /\ is_dir(f, r.node)
found_file(f, r) == r.ok /\ is_file(f, r.node)

\* os.path.exists, os.path.isdir, os.path.isfile
exists(f, p) == found(f, resolve(f, p))
isdir(f, p) == found_dir(f, resolve(f, p))
isfile(f, p) == found_file(f, resolve(f, p))

\* Disk f with node n set to entry e.
put(f, n, e) == [m \in DOMAIN f \cup {n} |-> IF m = n THEN e ELSE f[m]]

\* Disk f without node n and everything below it.
prune(f, n) == [m \in {k \in DOMAIN f : ~below(n, k)} |-> f[m]]

\* Disk f with the nodes of disk g below node a also below node b.
graft(f, g, a, b) ==
    LET pre == IF endswith(a, <<sep>>) THEN a ELSE a \o <<sep>>
        end == IF endswith(b, <<sep>>) THEN b ELSE b \o <<sep>>
        held == {k \in DOMAIN g : k # a /\ startswith(k, pre)}
        to(k) == end \o From(k, Len(pre) + 1)
    IN  [m \in DOMAIN f \cup {to(k) : k \in held} |->
            IF \E k \in held : to(k) = m
            THEN g[CHOOSE k \in held : to(k) = m]
            ELSE f[m]]

\* What a system call leaves: the disk, and "" or the error it raised
\* ("EEXIST" is FileExistsError, "OSError" any other OSError, "Error"
\* shutil.Error).
Done(f) == [f |-> f, err |-> ""]
Fail(f, e) == [f |-> f, err |-> e]

\* os.mkdir
mkdir_at(f, r) ==
    IF ~r.ok THEN Fail(f, "OSError")
    ELSE IF r.node \in DOMAIN f THEN Fail(f, "EEXIST")
    ELSE IF ~is_dir(f, parent(r.node)) THEN Fail(f, "OSError")
    ELSE Done(put(f, r.node, Dir))

mkdir(f, p) == mkdir_at(f, resolve(f, p))

\* os.path.split(name), taken again on the head when the tail is empty.
split_twice(head, tail) ==
    IF tail = <<>> THEN <<dirname(head), basename(head)>> ELSE <<head, tail>>

\* The end of os.makedirs: mkdir's error counts unless exist_ok and the
\* directory is there.
mkdir_exist_ok(m, name, exist_ok) ==
    IF m.err = "" THEN m
    ELSE IF exist_ok /\ isdir(m.f, name) THEN Done(m.f)
    ELSE m

\* os.makedirs after the parents (sub is what making them left).
makedirs_leaf(sub, name, tail, need, exist_ok) ==
    IF need /\ sub.err = "OSError" THEN sub
    ELSE IF need /\ tail = <<".">> THEN Done(sub.f)
    ELSE mkdir_exist_ok(mkdir(sub.f, name), name, exist_ok)

\* os.makedirs(name, exist_ok=exist_ok)
RECURSIVE makedirs(_, _, _)
makedirs(f, name, exist_ok) ==
    LET from(ht) ==
            LET go(need) ==
                    makedirs_leaf(IF need THEN makedirs(f, ht[1], exist_ok)
                                  ELSE Done(f),
                                  name, ht[2], need, exist_ok)
            IN  go(ht[1] # <<>> /\ ht[2] # <<>> /\ ~exists(f, ht[1]))
    IN  from(split_twice(dirname(name), basename(name)))

\* open(p, 'w') and write of data
open_w_at(f, p, r, data) ==
    IF ~r.ok \/ endswith(p, <<sep>>) THEN Fail(f, "OSError")
    ELSE IF is_dir(f, r.node) THEN Fail(f, "OSError")
    ELSE IF ~is_dir(f, parent(r.node)) THEN Fail(f, "OSError")
    ELSE Done(put(f, r.node, File(data)))

open_w(f, p, data) == open_w_at(f, p, resolve(f, p), data)

\* os.remove
remove_at(f, r) ==
    IF found_file(f, r) THEN Done(prune(f, r.node)) ELSE Fail(f, "OSError")

remove(f, p) == remove_at(f, resolve(f, p))

\* shutil.rmtree: a volume's root loses what it holds and stays.
rmtree_at(f, r) ==
    IF ~found_dir(f, r) THEN Fail(f, "OSError")
    ELSE IF parent(r.node) = r.node
    THEN Fail(put(prune(f, r.node), r.node, Dir), "OSError")
    ELSE Done(prune(f, r.node))

rmtree(f, p) == rmtree_at(f, resolve(f, p))

\* os.rename
rename_at(f, a, b) ==
    IF ~found(f, a) \/ ~b.ok \/ ~is_dir(f, parent(b.node))
    THEN Fail(f, "OSError")
    ELSE IF a.node = b.node THEN Done(f)
    ELSE IF below(a.node, b.node) \/ below(b.node, a.node)
    THEN Fail(f, "OSError")
    ELSE IF is_dir(f, a.node) /\ is_file(f, b.node)
    THEN Fail(f, "OSError")
    ELSE IF is_file(f, a.node) /\ is_dir(f, b.node)
    THEN Fail(f, "OSError")
    ELSE IF is_dir(f, b.node) /\ \E k \in DOMAIN f : k # b.node /\ below(b.node, k)
    THEN Fail(f, "OSError")
    ELSE IF os_name = "nt" /\ b.node \in DOMAIN f
    THEN Fail(f, "EEXIST")
    ELSE Done(prune(put(graft(prune(f, b.node), f, a.node, b.node),
                        b.node, f[a.node]),
                    a.node))

rename(f, src, dst) == rename_at(f, resolve(f, src), resolve(f, dst))

\* os.path.samefile, for paths that exist
samefile_at(f, a, b) == found(f, a) /\ found(f, b) /\ a.node = b.node

samefile(f, a, b) == samefile_at(f, resolve(f, a), resolve(f, b))

\* str.rstrip of the separators
RECURSIVE rstrip_seps(_)
rstrip_seps(p) ==
    IF p # <<>> /\ (p[Len(p)] = sep \/ p[Len(p)] = altsep)
    THEN rstrip_seps(SubSeq(p, 1, Len(p) - 1)) ELSE p

\* shutil._basename
shutil_basename(p) == basename(rstrip_seps(p))

\* shutil._destinsrc
with_sep(p) == IF endswith(p, <<sep>>) THEN p ELSE p \o <<sep>>

destinsrc(src, dst) == startswith(with_sep(abspath(dst)), with_sep(abspath(src)))

\* shutil.copyfile under shutil.copy2, to the file path `to`.
copyfile_at(f, rs, rt, to) ==
    IF samefile_at(f, rs, rt) THEN Fail(f, "OSError")
    ELSE IF ~found_file(f, rs) THEN Fail(f, "OSError")
    ELSE open_w_at(f, to, rt, f[rs.node].data)

copyfile(f, src, to) == copyfile_at(f, resolve(f, src), resolve(f, to), to)

\* shutil.copy2: a directory dst takes src's base name.
copy2(f, src, dst) ==
    copyfile(f, src, IF isdir(f, dst) THEN join(dst, basename(src)) ELSE dst)

\* shutil.copytree after os.makedirs(dst): what src held when it was listed
\* is copied below dst.
copytree_fill(f, made, a, b) ==
    IF made.err # "" THEN made ELSE Done(graft(made.f, f, a.node, b.node))

\* shutil.copytree(src, dst): dst is made (it must not exist).
copytree(f, src, dst) ==
    IF ~isdir(f, src) THEN Fail(f, "OSError")
    ELSE copytree_fill(f, makedirs(f, dst, FALSE),
                       resolve(f, src), resolve(f, dst))

\* copytree never ends when dst lies in a directory src already holds: each
\* level it makes is listed and copied again.
copytree_recurs_at(f, a, b) ==
    /\ found_dir(f, a)
    /\ \E k \in DOMAIN f :
          k # a.node /\ below(a.node, k) /\ is_dir(f, k) /\ below(k, b.node)

copytree_recurs(f, src, dst) ==
    copytree_recurs_at(f, resolve(f, src), resolve(f, dst))

\* shutil.move when os.rename(src, real_dst) has failed.
move_copy(f, src, dst, real_dst, src_is_dir) ==
    IF src_is_dir
    THEN IF destinsrc(src, dst) THEN Fail(f, "Error")
         ELSE LET after(copied) ==
                      IF copied.err # "" THEN copied ELSE rmtree(copied.f, src)
              IN  after(copytree(f, src, real_dst))
    ELSE LET after(copied) ==
                 IF copied.err # "" THEN copied ELSE remove(copied.f, src)
         IN  after(copy2(f, src, real_dst))

\* shutil.move to real_dst, dst or the place of src's name in directory dst.
move_to(f, src, dst, real_dst, into, renamed) ==
    IF into /\ exists(f, real_dst) THEN Fail(f, "Error")
    ELSE IF renamed.err = "" THEN renamed
    ELSE move_copy(f, src, dst, real_dst, isdir(f, src))

\* shutil.move
move_at(f, src, dst, dst_is_dir, same) ==
    LET to(real_dst) ==
            IF dst_is_dir /\ same THEN rename(f, src, dst)
            ELSE move_to(f, src, dst, real_dst, dst_is_dir,
                         rename(f, src, real_dst))
    IN  to(IF dst_is_dir /\ ~same THEN join(dst, shutil_basename(src))
           ELSE dst)

move(f, src, dst) == move_at(f, src, dst, isdir(f, dst), samefile(f, src, dst))

----------------------------------------------------------------------------
(* Python str methods the file tools use on a file's content. *)

\* old in s
contains(s, old) ==
    \E i \in 1..(Len(s) - Len(old) + 1) : SubSeq(s, i, i + Len(old) - 1) = old

\* s.replace("", new, count)
RECURSIVE replace_empty(_, _, _)
replace_empty(s, new, count) ==
    IF count = 0 THEN s
    ELSE IF s = <<>> THEN new
    ELSE new \o <<s[1]>> \o replace_empty(Tail(s), new, count - 1)

\* str.replace that replaces every occurrence whatever the count.
RECURSIVE replace_every(_, _, _, _)
replace_every(s, old, new, count) ==
    IF old = <<>> \/ Len(s) < Len(old) THEN s
    ELSE IF startswith(s, old)
    THEN new \o replace_every(From(s, Len(old) + 1), old, new, count)
    ELSE <<s[1]>> \o replace_every(Tail(s), old, new, count)

\* s.replace(old, new, count): a negative count replaces every occurrence.
RECURSIVE replace(_, _, _, _)
replace(s, old, new, count) ==
    IF count = 0 THEN s
    ELSE IF old = <<>> THEN replace_empty(s, new, count)
    ELSE IF Len(s) < Len(old) THEN s
    ELSE IF startswith(s, old)
    THEN new \o replace(From(s, Len(old) + 1), old, new, count - 1)
    ELSE <<s[1]>> \o replace(Tail(s), old, new, count)

\* " ".join(s.split()): runs of blanks become one blank, none at the ends.
RECURSIVE words(_, _)
words(s, cur) ==
    IF s = <<>> THEN (IF cur = <<>> THEN <<>> ELSE <<cur>>)
    ELSE IF s[1] = " "
    THEN (IF cur = <<>> THEN <<>> ELSE <<cur>>) \o words(Tail(s), <<>>)
    ELSE words(Tail(s), Append(cur, s[1]))

squeeze(s) == join_str(words(s, <<>>), " ")

----------------------------------------------------------------------------
(* The file tools, files.py:183-604.  A tool returns the disk it leaves,   *)
(* its text result (the parts of the f-string, in order) and the calls it  *)
(* made on the disk, in order.                                             *)

Out(f, result, trace) == [f |-> f, result |-> result, trace |-> trace]

\* main.py:108
BASE_URL == "http://localhost:9999"

\* The names directly in directory node n, with what each is.
listing(f, n) ==
    LET pre == IF endswith(n, <<sep>>) THEN n ELSE n \o <<sep>>
    IN  { <<IF f[k].kind = "dir" THEN "[DIR]  " ELSE "[FILE] ",
            From(k, Len(pre) + 1), Len(f[k].data)>> :
          k \in {m \in DOMAIN f : m # n /\ parent(m) = n} }

\* files.py:198-251
list_directory(f, path0) ==
    LET path == IF path0 = <<>> THEN DEFAULT_WORKSPACE ELSE path0
        t1 == << <<"exists", path>> >>
        t2 == Append(t1, <<"isdir", path>>)
        listed(entries) ==
            Out(f, IF entries = {} THEN <<"Directory is empty: ", path>>
                   ELSE <<"Contents of ", path, ":\n", entries>>,
                Append(t2, <<"listdir", path>>))
        at(r) ==
            IF ~found(f, r)
            THEN Out(f, <<"Error: Path does not exist: ", path>>, t1)
            ELSE IF ~found_dir(f, r)
            THEN Out(f, <<"Error: Not a directory: ", path>>, t2)
            ELSE listed(listing(f, r.node))
    IN  at(resolve(f, path))

\* read_file refusing a path outside every zone.
read_file_gated(f, path) ==
    IF ~is_in_safe_zone(path)
    THEN Out(f, <<"Error: Read operation denied. Path must be in a safe zone.\n\nSafe Zones:\n",
                  get_safe_zones_str>>, <<>>)
    ELSE IF ~exists(f, path)
    THEN Out(f, <<"Error: File does not exist: ", path>>, <<>>)
    ELSE IF ~isfile(f, path)
    THEN Out(f, <<"Error: Not a file: ", path>>, <<>>)
    ELSE Out(f, <<"", f[resolve(f, path).node].data>>, <<>>)

\* files.py:253-301, for a text file of one line and the default max_lines:
\* the result is the file's text (after an empty first part).
read_file(f, path) ==
    LET t1 == << <<"exists", path>> >>
        t2 == Append(t1, <<"isfile", path>>)
        at(r) ==
            IF ~found(f, r)
            THEN Out(f, <<"Error: File does not exist: ", path>>, t1)
            ELSE IF ~found_file(f, r)
            THEN Out(f, <<"Error: Not a file: ", path>>, t2)
            ELSE Out(f, <<"", f[r.node].data>>, Append(t2, <<"open_r", path>>))
    IN  at(resolve(f, path))

\* files.py:303-346
get_file_info(f, path) ==
    LET t1 == << <<"exists", path>> >>
        at(r) ==
            IF ~found(f, r)
            THEN Out(f, <<"Error: Path does not exist: ", path>>, t1)
            ELSE Out(f, <<"Path: ", abspath(path),
                          "Type: ", IF is_dir(f, r.node) THEN "Directory"
                                    ELSE "File",
                          "Size: ", Len(f[r.node].data),
                          "In Safe Zone: ", IF is_in_safe_zone(path) THEN "Yes"
                                            ELSE "No">>
                        \o (IF is_dir(f, r.node)
                            THEN <<"Items: ", Cardinality(listing(f, r.node))>>
                            ELSE <<>>),
                     Append(t1, <<"stat", path>>))
    IN  at(resolve(f, path))

\* files.py:348-356
list_safe_zones(f) ==
    Out(f, <<"Safe Zones (write operations allowed):\n", get_safe_zones_str>>,
        <<>>)

\* urllib.parse.quote of one character: letters, digits and _.-~/ are kept.
quote_char(c) ==
    CASE c = "\\" -> <<"%", "5", "C">>
      [] c = ":" -> <<"%", "3", "A">>
      [] c = " " -> <<"%", "2", "0">>
      [] c = "%" -> <<"%", "2", "5">>
      [] c = "+" -> <<"%", "2", "B">>
      [] c = "&" -> <<"%", "2", "6">>
      [] c = "=" -> <<"%", "3", "D">>
      [] OTHER -> <<c>>

\* urllib.parse.quote
RECURSIVE quote(_)
quote(s) == IF s = <<>> THEN <<>> ELSE quote_char(s[1]) \o quote(Tail(s))

\* get_download_url with the zone check made first.
get_download_url_zone_first(f, path) ==
    IF ~is_in_safe_zone(path)
    THEN Out(f, <<"Error: Download denied. File must be in a safe zone.\n\nSafe Zones:\n",
                  get_safe_zones_str>>, <<>>)
    ELSE IF ~exists(f, path)
    THEN Out(f, <<"Error: File does not exist: ", path>>, <<>>)
    ELSE IF ~isfile(f, path)
    THEN Out(f, <<"Error: Not a file: ", path>>, <<>>)
    ELSE Out(f, <<"Download URL: ", BASE_URL, "/download?path=",
                  quote(path)>>, <<>>)

\* files.py:358-387
get_download_url(f, path) ==
    LET t1 == << <<"exists", path>> >>
        t2 == Append(t1, <<"isfile", path>>)
        at(r) ==
            IF ~found(f, r)
            THEN Out(f, <<"Error: File does not exist: ", path>>, t1)
            ELSE IF ~found_file(f, r)
            THEN Out(f, <<"Error: Not a file: ", path>>, t2)
            ELSE IF ~is_in_safe_zone(path)
            THEN Out(f, <<"Error: Download denied. File must be in a safe zone.\n\nSafe Zones:\n",
                          get_safe_zones_str>>, t2)
            ELSE Out(f, <<"Download URL: ", BASE_URL, "/download?path=",
                          quote(path)>>, t2)
    IN  at(resolve(f, path))

\* files.py:410-441: edit_file once the zone check has passed
edit_file_body(f, path, old_text, new_text, count) ==
    LET t1 == << <<"exists", path>> >>
        t2 == Append(t1, <<"open_r", path>>)
        t3 == Append(t2, <<"open_w", path>>)
        written(wrote) ==
            IF wrote.err # ""
            THEN Out(wrote.f, <<"Error editing file: ", wrote.err>>, t3)
            ELSE Out(wrote.f, <<"File edited successfully: ", path>>, t3)
        replaced(content, new_content) ==
            IF new_content = content
            THEN Out(f, <<"Warning: No changes were made (replacement logic returned same content).">>,
                     t2)
            ELSE written(open_w(f, path, new_content))
        read(content) ==
            IF ~contains(content, old_text)
            THEN Out(f, IF contains(squeeze(content), squeeze(old_text))
                        THEN <<"Error: Text found but with different whitespace/indentation. Please provide exact match.">>
                        ELSE <<"Error: The 'old_text' was not found in the file.">>,
                     t2)
            ELSE replaced(content, replace(content, old_text, new_text, count))
        at(r) ==
            IF ~found(f, r)
            THEN Out(f, <<"Error: File does not exist: ", path>>, t1)
            ELSE IF ~found_file(f, r)
            THEN Out(f, <<"Error editing file: ", "OSError">>, t2)
            ELSE read(f[r.node].data)
    IN  at(resolve(f, path))

\* edit_file looking for the file before it checks the zone.
edit_file_exists_first(f, path, old_text, new_text, count) ==
    IF ~exists(f, path)
    THEN Out(f, <<"Error: File does not exist: ", path>>,
             << <<"exists", path>> >>)
    ELSE IF ~is_in_safe_zone(path)
    THEN Out(f, <<"Error: Edit operation denied. Path must be in a safe zone.\n\nSafe Zones:\n",
                  get_safe_zones_str>>, << <<"exists", path>> >>)
    ELSE edit_file_body(f, path, old_text, new_text, count)

\* files.py:391-441
edit_file(f, path, old_text, new_text, count) ==
    IF ~is_in_safe_zone(path)
    THEN Out(f, <<"Error: Edit operation denied. Path must be in a safe zone.\n\nSafe Zones:\n",
                  get_safe_zones_str>>, <<>>)
    ELSE edit_file_body(f, path, old_text, new_text, count)

\* open(path, 'w') that leaves the file's content as it is.
open_keeping(f, path) == Done(f)

\* files.py:435: open(path, 'w') empties the file.
open_truncating(f, path) == open_w(f, path, <<>>)

\* files.py:436: f.write(new_content) and the close that ends the with
\* block: the text goes to the start of the file as it is then, and what
\* the file holds beyond the text's length stays.
write_fd(f, path, data) ==
    LET at(n) ==
            put(f, n, File(data \o (IF n \in DOMAIN f
                                    THEN From(f[n].data, Len(data) + 1)
                                    ELSE <<>>)))
    IN  at(resolve(f, path).node)

\* files.py:418-433: what edit_file makes of the content it has read.
edit_file_computed(content, old_text, new_text, count) ==
    LET replaced(new_content) ==
            IF new_content = content
            THEN [write |-> FALSE, new_content |-> new_content,
                  result |-> <<"Warning: No changes were made (replacement logic returned same content).">>]
            ELSE [write |-> TRUE, new_content |-> new_content,
                  result |-> <<>>]
    IN  IF ~contains(content, old_text)
        THEN [write |-> FALSE, new_content |-> content,
              result |->
                  IF contains(squeeze(content), squeeze(old_text))
                  THEN <<"Error: Text found but with different whitespace/indentation. Please provide exact match.">>
                  ELSE <<"Error: The 'old_text' was not found in the file.">>]
        ELSE replaced(replace(content, old_text, new_text, count))

\* files.py:464-475: write_file once the zone check has passed
write_file_body(f, path, content) ==
    LET t(parent_dir, need) ==
            (IF parent_dir # <<>> THEN << <<"exists", parent_dir>> >>
             ELSE <<>>)
            \o (IF need THEN << <<"makedirs", parent_dir>> >> ELSE <<>>)
        written(wrote, t2) ==
            IF wrote.err # ""
            THEN Out(wrote.f, <<"Error writing file: ", wrote.err>>,
                     Append(t2, <<"open_w", path>>))
            ELSE Out(wrote.f, <<"File written successfully: ", path>>,
                     Append(t2, <<"open_w", path>>))
        after(made, t2) ==
            IF made.err # ""
            THEN Out(made.f, <<"Error writing file: ", made.err>>, t2)
            ELSE written(open_w(made.f, path, content), t2)
        go(parent_dir, need) ==
            after(IF need THEN makedirs(f, parent_dir, TRUE) ELSE Done(f),
                  t(parent_dir, need))
        from(parent_dir) ==
            go(parent_dir, parent_dir # <<>> /\ ~exists(f, parent_dir))
    IN  from(dirname(path))

\* files.py:457-459 and 555-557: a relative path is put under the workspace.
in_workspace(path0) ==
    IF ~isabs(path0) THEN join(DEFAULT_WORKSPACE, path0) ELSE path0

\* files.py:442-475
write_file_checked(f, path, content) ==
    IF ~is_in_safe_zone(path)
    THEN Out(f, <<"Error: Write operation denied. Path must be in a safe zone.\n\nSafe Zones:\n",
                  get_safe_zones_str>>, <<>>)
    ELSE write_file_body(f, path, content)

\* files.py:442-475 (defined, but not registered as a tool)
write_file(f, path0, content) ==
    write_file_checked(f, in_workspace(path0), content)

\* files.py:495-503: move_file once both zone checks have passed
move_file_body(f, source, destination) ==
    LET t1 == << <<"exists", source>> >>
        t2 == Append(t1, <<"move", source, destination>>)
        after(moved) ==
            IF moved.err # ""
            THEN Out(moved.f, <<"Error moving file: ", moved.err>>, t2)
            ELSE Out(moved.f, <<"Moved: ", source, " -> ", destination>>, t2)
    IN  IF ~exists(f, source)
        THEN Out(f, <<"Error: Source does not exist: ", source>>, t1)
        ELSE after(move(f, source, destination))

\* move_file checking its destination only.
move_file_destination_only(f, source, destination) ==
    IF ~is_in_safe_zone(destination)
    THEN Out(f, <<"Error: Cannot move to outside safe zone.\nDestination: ",
                  destination, "\n\nSafe Zones:\n", get_safe_zones_str>>, <<>>)
    ELSE move_file_body(f, source, destination)

\* files.py:477-503
move_file(f, source, destination) ==
    IF ~is_in_safe_zone(source)
    THEN Out(f, <<"Error: Cannot move from outside safe zone.\nSource: ",
                  source, "\n\nSafe Zones:\n", get_safe_zones_str>>, <<>>)
    ELSE IF ~is_in_safe_zone(destination)
    THEN Out(f, <<"Error: Cannot move to outside safe zone.\nDestination: ",
                  destination, "\n\nSafe Zones:\n", get_safe_zones_str>>, <<>>)
    ELSE move_file_body(f, source, destination)

\* files.py:520-539: delete_file once the zone check has passed
delete_file_body(f, path, to_recycle) ==
    LET t1 == << <<"exists", path>> >>
        t2 == t1 \o << <<"isdir", path>>, <<"remove", path>> >>
        after(gone) ==
            IF gone.err # ""
            THEN Out(gone.f, <<"Error deleting: ", gone.err>>, t2)
            ELSE Out(gone.f, <<"Permanently deleted: ", path>>, t2)
        at(r) ==
            IF ~found(f, r)
            THEN Out(f, <<"Error: Path does not exist: ", path>>, t1)
            ELSE IF to_recycle
            THEN IF send2trash
                 THEN Out(prune(f, r.node), <<"Moved to Recycle Bin: ", path>>,
                          Append(t1, <<"send2trash", path>>))
                 ELSE Out(f, <<"Error: send2trash not installed. Use to_recycle=False for permanent deletion.">>,
                          t1)
            ELSE after(IF found_dir(f, r) THEN rmtree_at(f, r)
                       ELSE remove_at(f, r))
    IN  at(resolve(f, path))

\* delete_file without its zone check.
delete_file_unchecked(f, path, to_recycle) ==
    delete_file_body(f, path, to_recycle)

\* files.py:505-539
delete_file(f, path, to_recycle) ==
    IF ~is_in_safe_zone(path)
    THEN Out(f, <<"Error: Delete operation denied. Path must be in a safe zone.\n\nSafe Zones:\n",
                  get_safe_zones_str>>, <<>>)
    ELSE delete_file_body(f, path, to_recycle)

\* create_directory's body making the directories without exist_ok.
create_directory_body_no_exist_ok(f, path) ==
    LET t1 == << <<"makedirs", path>> >>
        after(made) ==
            IF made.err # ""
            THEN Out(made.f, <<"Error creating directory: ", made.err>>, t1)
            ELSE Out(made.f, <<"Directory created: ", path>>, t1)
    IN  after(makedirs(f, path, FALSE))

\* files.py:562-567: create_directory once the zone check has passed
create_directory_body(f, path) ==
    LET t1 == << <<"makedirs", path>> >>
        after(made) ==
            IF made.err # ""
            THEN Out(made.f, <<"Error creating directory: ", made.err>>, t1)
            ELSE Out(made.f, <<"Directory created: ", path>>, t1)
    IN  after(makedirs(f, path, TRUE))

\* files.py:541-567
create_directory_checked(f, path) ==
    IF ~is_in_safe_zone(path)
    THEN Out(f, <<"Error: Create directory denied. Path must be in a safe zone.\n\nSafe Zones:\n",
                  get_safe_zones_str>>, <<>>)
    ELSE create_directory_body(f, path)

\* files.py:541-567
create_directory(f, path0) == create_directory_checked(f, in_workspace(path0))

\* files.py:588-604: copy_file once the zone check has passed
copy_file_body(f, source, destination) ==
    LET t1 == << <<"exists", source>> >>
        t2 == t1 \o << <<"isdir", source>>, <<"copy", source, destination>> >>
        after(copied) ==
            IF copied.err # ""
            THEN Out(copied.f, <<"Error copying: ", copied.err>>, t2)
            ELSE Out(copied.f, <<"Copied: ", source, " -> ", destination>>, t2)
        into(made) ==
            IF made.err # "" THEN made ELSE copy2(made.f, source, destination)
        go(parent_dir, need) ==
            into(IF need THEN makedirs(f, parent_dir, TRUE) ELSE Done(f))
        from(parent_dir) ==
            go(parent_dir, parent_dir # <<>> /\ ~exists(f, parent_dir))
        at(r) ==
            IF ~found(f, r)
            THEN Out(f, <<"Error: Source does not exist: ", source>>, t1)
            ELSE after(IF found_dir(f, r)
                       THEN copytree(f, source, destination)
                       ELSE from(dirname(destination)))
    IN  at(resolve(f, source))

\* copy_file checking its source as well.
copy_file_source_checked(f, source, destination) ==
    IF ~is_in_safe_zone(source) \/ ~is_in_safe_zone(destination)
    THEN Out(f, <<"Error: Copy destination must be in a safe zone.\nDestination: ",
                  destination, "\n\nSafe Zones:\n", get_safe_zones_str>>, <<>>)
    ELSE copy_file_body(f, source, destination)

\* files.py:571-604
copy_file(f, source, destination) ==
    IF ~is_in_safe_zone(destination)
    THEN Out(f, <<"Error: Copy destination must be in a safe zone.\nDestination: ",
                  destination, "\n\nSafe Zones:\n", get_safe_zones_str>>, <<>>)
    ELSE copy_file_body(f, source, destination)

----------------------------------------------------------------------------
(* The HTTP side, main.py:145-193. *)

\* The character a %XX escape stands for, None when the model has none for
\* it (requests are drawn with the escapes quote_char writes, and "%2F").
hex_char(a, b) ==
    CASE a = "5" /\ b \in {"C", "c"} -> "\\"
      [] a = "3" /\ b \in {"A", "a"} -> ":"
      [] a = "2" /\ b = "0" -> " "
      [] a = "2" /\ b = "5" -> "%"
      [] a = "2" /\ b \in {"B", "b"} -> "+"
      [] a = "2" /\ b = "6" -> "&"
      [] a = "3" /\ b \in {"D", "d"} -> "="
      [] a = "2" /\ b \in {"F", "f"} -> "/"
      [] OTHER -> None

\* unquote that decodes no escape.
unquote_as_given(s) == s

\* urllib.parse.unquote
RECURSIVE unquote(_)
unquote(s) ==
    IF s = <<>> THEN <<>>
    ELSE IF s[1] = "%" /\ Len(s) >= 3 /\ hex_char(s[2], s[3]) # None
    THEN <<hex_char(s[2], s[3])>> \o unquote(From(s, 4))
    ELSE <<s[1]>> \o unquote(Tail(s))

\* urllib.parse.parse_qsl: the (name, value) pairs of a query string, in
\* order; a field with no "=" or with an empty value is dropped.
RECURSIVE parse_fields(_)
parse_fields(fields) ==
    IF fields = <<>> THEN <<>>
    ELSE LET nv == Head(fields)
             eq == {i \in 1..Len(nv) : nv[i] = "="}
             i == CHOOSE j \in eq : \A k \in eq : j <= k
             name == unquote(replace_char(SubSeq(nv, 1, i - 1), "+", " "))
             value == unquote(replace_char(From(nv, i + 1), "+", " "))
         IN  IF eq = {} \/ From(nv, i + 1) = <<>>
             THEN parse_fields(Tail(fields))
             ELSE << <<name, value>> >> \o parse_fields(Tail(fields))

\* The values the pairs give for key, in order.
RECURSIVE values_of(_, _)
values_of(pairs, key) ==
    IF pairs = <<>> THEN <<>>
    ELSE (IF pairs[1][1] = key THEN <<pairs[1][2]>> ELSE <<>>)
             \o values_of(Tail(pairs), key)

\* parse_qs(query_string).get(key) keeping the empty value of a query that
\* is the key and "=" alone.
parse_qs_get_keep_blank(query_string, key) ==
    IF query_string = key \o <<"=">> THEN Some(<< <<>> >>)
    ELSE LET got(values) == IF values = <<>> THEN NoValue ELSE Some(values)
         IN  got(values_of(parse_fields(split(query_string, "&")), key))

\* parse_qs(query_string).get(key): the values given for key, in order,
\* or None when there is none.
parse_qs_get(query_string, key) ==
    LET got(values) == IF values = <<>> THEN NoValue ELSE Some(values)
    IN  got(values_of(parse_fields(split(query_string, "&")), key))

\* A plain-text response; its body is the one text.
Response(status, body) ==
    [app |-> "download", status |-> status, body |-> <<body>>,
     filename |-> NoValue, trace |-> <<>>]

\* starlette's FileResponse(path, filename=filename) when it is sent: the
\* file's bytes as an attachment; a path that is no regular file raises
\* RuntimeError, which the server answers with 500.
FileResponse(f, file_path, filename, trace) ==
    LET at(r) ==
            IF found_file(f, r)
            THEN [app |-> "download", status |-> 200, body |-> f[r.node].data,
                  filename |-> Some(filename),
                  trace |-> Append(trace, <<"stat", file_path>>)]
            ELSE [app |-> "download", status |-> 500, body |-> <<"RuntimeError">>,
                  filename |-> NoValue,
                  trace |-> Append(trace, <<"stat", file_path>>)]
    IN  at(resolve(f, file_path))

path_key == <<"p", "a", "t", "h">>

\* The secure download with the zone check made before the existence test.
download_zone_first(f, query_string) ==
    LET serve(file_path) ==
            IF ~is_safe_path(file_path)
            THEN Response(403, "Error: Access denied. File is not in a Safe Zone.")
            ELSE IF ~exists(f, file_path)
            THEN Response(404, "Error: File not found.")
            ELSE FileResponse(f, file_path, basename(file_path), <<>>)
        got(file_path_list) ==
            IF ~truthy(file_path_list)
            THEN Response(400, "Error: Missing 'path' parameter.")
            ELSE serve(file_path_list.val[1])
    IN  got(parse_qs_get(query_string, path_key))

\* main.py:163-189: the secure download
download(f, query_string) ==
    LET t1(file_path) == << <<"exists", file_path>> >>
        serve(file_path) ==
            IF ~exists(f, file_path)
            THEN [Response(404, "Error: File not found.")
                     EXCEPT !.trace = t1(file_path)]
            ELSE IF ~is_safe_path(file_path)
            THEN [Response(403, "Error: Access denied. File is not in a Safe Zone.")
                     EXCEPT !.trace = t1(file_path)]
            ELSE FileResponse(f, file_path, basename(file_path), t1(file_path))
        got(file_path_list) ==
            IF ~truthy(file_path_list)
            THEN Response(400, "Error: Missing 'path' parameter.")
            ELSE serve(file_path_list.val[1])
    IN  got(parse_qs_get(query_string, path_key))

screenshots_prefix ==
    <<"/", "s", "c", "r", "e", "e", "n", "s", "h", "o", "t", "s">>

download_path == <<"/", "d", "o", "w", "n", "l", "o", "a", "d">>

\* The router sending every path that begins with /download to the download.
CombinedApp_download_prefix(f, scope) ==
    IF startswith(scope.path, screenshots_prefix)
    THEN [app |-> "static",
          scope |-> [scope EXCEPT
                        !.path = From(scope.path, Len(screenshots_prefix) + 1)]]
    ELSE IF startswith(scope.path, download_path)
    THEN download(f, scope.query_string)
    ELSE [app |-> "mcp", scope |-> scope]

\* main.py:153-193: CombinedApp.__call__
CombinedApp(f, scope) ==
    IF startswith(scope.path, screenshots_prefix)
    THEN [app |-> "static",
          scope |-> [scope EXCEPT
                        !.path = From(scope.path, Len(screenshots_prefix) + 1)]]
    ELSE IF scope.path = download_path
    THEN download(f, scope.query_string)
    ELSE [app |-> "mcp", scope |-> scope]

\* main.py:133-139: the loop that builds new_headers.
RECURSIVE new_headers(_)
new_headers(headers) ==
    IF headers = <<>> THEN <<>>
    ELSE (IF headers[1][1] = "host"
          THEN << <<"host", "localhost:9999">> >>
          ELSE << headers[1] >>) \o new_headers(Tail(headers))

\* The middleware rewriting only the first header when it is Host.
HostHeaderMiddleware_first_only(scope) ==
    IF scope.type = "http" /\ scope.headers # <<>>
       /\ scope.headers[1][1] = "host"
    THEN [scope EXCEPT !.headers[1] = <<"host", "localhost:9999">>]
    ELSE scope

\* main.py:122-142: HostHeaderMiddleware.__call__, the scope it hands to the
\* app it wraps.
HostHeaderMiddleware(scope) ==
    IF scope.type = "http"
    THEN [scope EXCEPT !.headers = new_headers(scope.headers)]
    ELSE scope

----------------------------------------------------------------------------
(* What the model draws: deployments, disks, arguments. *)

\* The absolute path with the given names on the platform's first volume.
P(names) ==
    IF os_name = "nt" THEN <<"C", ":", "\\">> \o join_str(names, "\\")
    ELSE <<"/">> \o join_str(names, "/")

\* The disk when the server starts: the working directory, the user's
\* home, a directory d holding file a, a directory dd holding file a, and
\* the workspace made by files.py:57.
InitialDisk ==
    IF os_name = "nt"
    THEN [n \in {<<"c", ":", "\\">>, <<"d", ":", "\\">>,
                 <<"d", ":", "\\", "a", "l", "i", "c", "e">>,
                 <<"c", ":", "\\", "w">>, <<"c", ":", "\\", "h">>,
                 <<"c", ":", "\\", "d">>, <<"c", ":", "\\", "d", "d">>,
                 <<"c", ":", "\\", "d", "\\", "a">>,
                 <<"c", ":", "\\", "d", "d", "\\", "a">>} |->
             IF n = <<"c", ":", "\\", "d", "\\", "a">> THEN File(<<"x", "x">>)
             ELSE IF n = <<"c", ":", "\\", "d", "d", "\\", "a">>
             THEN File(<<"y">>) ELSE Dir]
    ELSE [n \in {<<"/">>, <<"/", "w">>, <<"/", "h">>, <<"/", "d">>,
                 <<"/", "d", "d">>, <<"/", "d", "/", "a">>,
                 <<"/", "d", "d", "/", "a">>,
                 <<"/", "w", "/">> \o DEFAULT_WORKSPACE} |->
             IF n = <<"/", "d", "/", "a">> THEN File(<<"x", "x">>)
             ELSE IF n = <<"/", "d", "d", "/", "a">>
             THEN File(<<"y">>) ELSE Dir]

\* Directory z of directory q; neither is on the disk at first.
MissingZone == P(<< <<"q">>, <<"z">> >>)

\* The safe_zones values of config.json the file tools are run under:
\* directory d, no entry, or a directory that is not on the disk.
ToolZoneConfigs == { Some(<< P(<< <<"d">> >>) >>), NoValue, Some(<<MissingZone>>) }

\* The path arguments of the tool calls and download requests.
ToolPaths ==
    { P(<< <<"d">> >>),
      P(<< (IF os_name = "nt" THEN <<"D">> ELSE <<"d">>), <<"a">> >>),
      P(<< <<"d">>, <<"n">> >>),
      P(<< <<"d", "d">> >>),
      P(<< <<"d", "d">>, <<"a">> >>),
      P(<< <<"d", "d">>, <<"n">> >>),
      P(<< <<"d">>, <<".", ".">>, <<"d", "d">>, <<"a">> >>),
      <<>> }

\* Paths that are not absolute: file a of directory d from the working
\* directory, and the bare name n.
RelativePaths == { <<".", ".", sep, "d", sep, "a">>, <<"n">> }

\* The (old_text, new_text, count) arguments of edit_file.
Edits ==
    { << <<"x">>, <<"y">>, -1 >>,
      << <<"x">>, <<"y">>, 1 >>,
      << <<"x">>, <<"y">>, 0 >>,
      << <<"x">>, <<"y">>, 2 >>,
      << <<"z">>, <<"y">>, -1 >> }

Contents == {<<"y">>}

\* The (source, destination) arguments of move_file and copy_file.
Sources ==
    { P(<< <<"d">>, <<"a">> >>), P(<< <<"d", "d">>, <<"a">> >>),
      P(<< <<"d">>, <<"n">> >>), P(<< <<"d">> >>) }

Destinations ==
    { P(<< <<"d">>, <<"n">> >>), P(<< <<"d", "d">>, <<"n">> >>),
      P(<< <<"d", "d">> >>), P(<< <<"d">>, <<"a">> >>) }

path_eq == path_key \o <<"=">>

\* The query strings of the requests.
QueryStrings ==
    {path_eq \o quote(p) : p \in ToolPaths}
    \cup { <<>>,
           <<"x", "=">> \o quote(P(<< <<"d">>, <<"a">> >>)),
           path_key,
           path_eq \o quote(P(<< <<"d", "d">>, <<"a">> >>)) \o <<"&">>
               \o path_eq \o quote(P(<< <<"d">>, <<"a">> >>)),
           path_eq \o quote(P(<< <<"d">>, <<"a">> >>)) \o <<"&">>
               \o path_eq \o quote(P(<< <<"d", "d">>, <<"a">> >>)) }

\* The requests: every query on the download route, and paths on and
\* around each other route.
Requests ==
    { <<download_path, q>> : q \in QueryStrings }
    \cup { << p, <<>> >> : p \in
             { <<"/", "s", "s", "e">>,
               screenshots_prefix \o <<"/", "s">>,
               screenshots_prefix \o <<"X">>,
               screenshots_prefix,
               download_path \o <<"/">>,
               download_path \o <<"s">>,
               download_path \o <<"/", "x">> } }

\* The headers a client sends with a request, as (name, value) pairs with
\* the names in lower case, as the ASGI server hands them over.
ClientHeaders == << <<"host", "evil.example">>, <<"accept", "*/*">> >>

\* Other header lists: none at all (HTTP/1.0 asks for no Host), Host given
\* twice among other headers, and the expected Host already.
OtherHeaders ==
    { <<>>,
      << <<"accept", "*/*">>, <<"host", "a">>, <<"x-forwarded-host", "host">>,
         <<"host", "b">> >>,
      << <<"host", "localhost:9999">> >> }

\* The ASGI scopes the server hands to the application: each request with
\* the usual headers, the tool transport's path with each other header
\* list, and scopes that are not HTTP requests.
Scopes ==
    { [type |-> "http", path |-> r[1], query_string |-> r[2],
       headers |-> ClientHeaders] : r \in Requests }
    \cup { [type |-> "http", path |-> <<"/", "s", "s", "e">>,
            query_string |-> <<>>, headers |-> h] : h \in OtherHeaders }
    \cup { [type |-> "websocket", path |-> <<"/", "s", "s", "e">>,
            query_string |-> <<>>, headers |-> ClientHeaders],
           [type |-> "lifespan", path |-> <<>>, query_string |-> <<>>,
            headers |-> <<>>] }

\* No scope: the last call was a tool call.
NoScope ==
    [type |-> "", path |-> <<>>, query_string |-> <<>>, headers |-> <<>>]

\* The paths the tools' zone check and the gateway's zone check report as
\* contained, of the paths the calls are made with.
Contained ==
    [tools |-> {p \in ToolPaths \cup Sources \cup Destinations :
                    is_in_safe_zone(p)},
     gateway |-> {p \in ToolPaths \cup Sources \cup Destinations :
                      is_safe_path(p)}]

\* What is known of the last call: its operation and arguments, what it
\* returned, the calls it made on the disk, and the disk it found; for a
\* request, the scope the server handed over and the scope the router got.
Idle ==
    [op |-> "idle", args |-> <<>>, result |-> <<>>, trace |-> <<>>,
     before |-> InitialDisk, inbound |-> NoScope, scope |-> NoScope]

Call(op, args, out) ==
    [op |-> op, args |-> args, result |-> out.result, trace |-> out.trace,
     before |-> fs, inbound |-> NoScope, scope |-> NoScope]

----------------------------------------------------------------------------
(* The server: tool calls and HTTP requests, one at a time. *)

Init ==
    /\ os_name \in {"posix", "nt"}
    /\ SAFE_ZONES \in ToolZoneConfigs
    /\ send2trash \in BOOLEAN
    /\ fs = InitialDisk
    /\ at_start = Contained
    /\ calls = <<>>
    /\ SSH_CONFIG = NoValue
    /\ last = Idle
    /\ steps = 0

\* A call that leaves `out`.
Finish(op, args, out) ==
    /\ steps' = steps + 1
    /\ fs' = out.f
    /\ last' = Call(op, args, out)
    /\ UNCHANGED <<SSH_CONFIG, calls, at_start, os_name, SAFE_ZONES, send2trash>>

\* File contents stay within the bound.
fits(f) == \A n \in DOMAIN f : Len(f[n].data) <= MaxContentLen

ListDirectory ==
    /\ steps < MaxSteps
    /\ \E p \in ToolPaths :
        \E out \in {list_directory(fs, p)} :
            Finish("list_directory", <<p>>, out)

ReadFile ==
    /\ steps < MaxSteps
    /\ \E p \in ToolPaths :
        \E out \in {read_file(fs, p)} : Finish("read_file", <<p>>, out)

GetFileInfo ==
    /\ steps < MaxSteps
    /\ \E p \in ToolPaths :
        \E out \in {get_file_info(fs, p)} : Finish("get_file_info", <<p>>, out)

ListSafeZones ==
    /\ steps < MaxSteps
    /\ \E out \in {list_safe_zones(fs)} : Finish("list_safe_zones", <<>>, out)

GetDownloadUrl ==
    /\ steps < MaxSteps
    /\ \E p \in ToolPaths \cup RelativePaths :
        \E out \in {get_download_url(fs, p)} :
            Finish("get_download_url", <<p>>, out)

EditFile ==
    /\ steps < MaxSteps
    /\ \E p \in ToolPaths, e \in Edits :
        \E out \in {edit_file(fs, p, e[1], e[2], e[3])} :
            /\ fits(out.f)
            /\ Finish("edit_file", <<p, e[1], e[2], e[3]>>, out)

WriteFile ==
    /\ steps < MaxSteps
    /\ \E p \in ToolPaths \cup RelativePaths, c \in Contents :
        \E out \in {write_file(fs, p, c)} : Finish("write_file", <<p, c>>, out)

MoveFile ==
    /\ steps < MaxSteps
    /\ \E s \in Sources, d \in Destinations :
        /\ ~copytree_recurs(fs, s, d)
        /\ \E out \in {move_file(fs, s, d)} : Finish("move_file", <<s, d>>, out)

DeleteFile ==
    /\ steps < MaxSteps
    /\ \E p \in ToolPaths, to_recycle \in BOOLEAN :
        \E out \in {delete_file(fs, p, to_recycle)} :
            Finish("delete_file", <<p, to_recycle>>, out)

CreateDirectory ==
    /\ steps < MaxSteps
    /\ \E p \in ToolPaths \cup RelativePaths \cup {MissingZone} :
        \E out \in {create_directory(fs, p)} :
            Finish("create_directory", <<p>>, out)

CopyFile ==
    /\ steps < MaxSteps
    /\ \E s \in Sources, d \in Destinations :
        /\ ~copytree_recurs(fs, s, d)
        /\ \E out \in {copy_file(fs, s, d)} : Finish("copy_file", <<s, d>>, out)

HttpRequest ==
    /\ steps < MaxSteps
    /\ \E inbound \in Scopes :
        \E scope \in {HostHeaderMiddleware(inbound)} :
            \E res \in {CombinedApp(fs, scope)} :
                /\ steps' = steps + 1
                /\ last' = [op |-> "http",
                            args |-> <<inbound.path, inbound.query_string>>,
                            result |-> res,
                            trace |-> IF res.app = "download" THEN res.trace
                                      ELSE <<>>,
                            before |-> fs,
                            inbound |-> inbound, scope |-> scope]
                /\ UNCHANGED <<SSH_CONFIG, calls, at_start, os_name, SAFE_ZONES, send2trash, fs>>

Next ==
    \/ ListDirectory
    \/ ReadFile
    \/ GetFileInfo
    \/ ListSafeZones
    \/ GetDownloadUrl
    \/ EditFile
    \/ WriteFile
    \/ MoveFile
    \/ DeleteFile
    \/ CreateDirectory
    \/ CopyFile
    \/ HttpRequest

Spec == Init /\ [][Next]_vars

----------------------------------------------------------------------------
(* The zone checks alone: one call of is_in_safe_zone or is_safe_path on a  *)
(* path, under a zone configuration.                                       *)

\* The safe_zones values of config.json the zone checks are run under: no
\* entry, an empty list, directory d, a volume's root, d written with a
\* separator at its end, directories dd and d, and the user's home written
\* as ~, as $H and as %H%.
ZoneConfigs ==
    { NoValue,
      Some(<<>>),
      Some(<< P(<< <<"d">> >>) >>),
      Some(<< P(<<>>) >>),
      Some(<< P(<< <<"d">> >>) \o <<sep>> >>),
      Some(<< P(<< <<"d", "d">> >>), P(<< <<"d">> >>) >>),
      Some(<< <<"~">> >>),
      Some(<< <<"$", "H">> >>),
      Some(<< <<"%", "H", "%">> >>) }

\* The paths checked: every str of the separator, d, D and "." up to the
\* bound (on nt none that starts as a UNC share does), the user's home, the
\* first default zone and a file in it, the relative paths ~, $H and %H%,
\* d/../dd, and dd/../d/./d.
ZonePaths ==
    { p \in StrsUpTo({sep, "d", "D", "."}, MaxPathLen) :
        ~(os_name = "nt" /\ startswith(p, <<sep, sep>>)) }
    \cup { userhome, DEFAULT_SAFE_ZONES[1],
           DEFAULT_SAFE_ZONES[1] \o <<sep, "a">>,
           <<"~">>, <<"$", "H">>, <<"%", "H", "%">>,
           P(<< <<"d">>, <<".", ".">>, <<"d", "d">> >>),
           P(<< <<"d", "d">>, <<".", ".">>, <<"d">>, <<".">>, <<"d">> >>) }

InitZone ==
    /\ os_name \in {"posix", "nt"}
    /\ SAFE_ZONES \in ZoneConfigs
    /\ send2trash = FALSE
    /\ fs = InitialDisk
    /\ at_start = Contained
    /\ calls = <<>>
    /\ SSH_CONFIG = NoValue
    /\ \E p \in ZonePaths : last = [Idle EXCEPT !.args = <<p>>]
    /\ steps = 0

IsInSafeZone ==
    /\ last.op = "idle"
    /\ last' = [last EXCEPT !.op = "is_in_safe_zone",
                            !.result = is_in_safe_zone(last.args[1])]
    /\ steps' = steps + 1
    /\ UNCHANGED <<SSH_CONFIG, calls, at_start, os_name, SAFE_ZONES, send2trash, fs>>

IsSafePath ==
    /\ last.op = "idle"
    /\ last' = [last EXCEPT !.op = "is_safe_path",
                            !.result = is_safe_path(last.args[1])]
    /\ steps' = steps + 1
    /\ UNCHANGED <<SSH_CONFIG, calls, at_start, os_name, SAFE_ZONES, send2trash, fs>>

NextZone ==
    \/ IsInSafeZone
    \/ IsSafePath

SpecZone == InitZone /\ [][NextZone]_vars

----------------------------------------------------------------------------
(* Two edit_file calls side by side.  Each call goes through the lines of   *)
(* edit_file in order; between two accesses to the disk of one call the    *)
(* other call may make any number of its own.                              *)

\* The files the two calls edit: file a of directory d, and file a of
\* directory dd.
ConcurrentPaths ==
    { P(<< (IF os_name = "nt" THEN <<"D">> ELSE <<"d">>), <<"a">> >>),
      P(<< <<"d", "d">>, <<"a">> >>) }

\* The (old_text, new_text, count) arguments of the two calls.
ConcurrentEdits ==
    { << <<"x">>, <<"y", "y">>, 1 >>,
      << <<"x">>, <<>>, 1 >>,
      << <<"x">>, <<"y">>, -1 >> }

\* A call that has not begun.
Start(p, e) ==
    [pc |-> "start", args |-> <<p, e[1], e[2], e[3]>>, denied |-> FALSE,
     read |-> <<>>, new_content |-> <<>>, result |-> <<>>, turn |-> 0]

InitEdit ==
    /\ os_name \in {"posix", "nt"}
    /\ SAFE_ZONES \in ToolZoneConfigs
    /\ send2trash = FALSE
    /\ fs = InitialDisk
    /\ at_start = Contained
    /\ calls \in { <<Start(p, e), Start(q, g)>> :
                     p \in ConcurrentPaths, e \in ConcurrentEdits,
                     q \in ConcurrentPaths, g \in ConcurrentEdits }
    /\ SSH_CONFIG = NoValue
    /\ last = Idle
    /\ steps = 0

\* files.py:407-411: the zone check and the look for the file.
EditCheck(i) ==
    /\ calls[i].pc = "start"
    /\ calls' = [calls EXCEPT ![i] =
           IF ~is_in_safe_zone(@.args[1])
           THEN [@ EXCEPT !.pc = "done", !.denied = TRUE,
                          !.result = <<"Error: Edit operation denied. Path must be in a safe zone.\n\nSafe Zones:\n",
                                       get_safe_zones_str>>]
           ELSE IF ~exists(fs, @.args[1])
           THEN [@ EXCEPT !.pc = "done",
                          !.result = <<"Error: File does not exist: ",
                                       calls[i].args[1]>>]
           ELSE [@ EXCEPT !.pc = "read"]]
    /\ UNCHANGED <<SSH_CONFIG, at_start, os_name, SAFE_ZONES, send2trash, fs,
                 last, steps>>

\* files.py:415-433: the file is read whole and the new content computed.
EditRead(i) ==
    /\ calls[i].pc = "read"
    /\ isfile(fs, calls[i].args[1])
    /\ \E content \in {fs[resolve(fs, calls[i].args[1]).node].data} :
        \E c \in {edit_file_computed(content, calls[i].args[2],
                                     calls[i].args[3], calls[i].args[4])} :
            /\ Len(c.new_content) <= MaxContentLen
            /\ calls' = [calls EXCEPT ![i] =
                   [@ EXCEPT !.pc = IF c.write THEN "open" ELSE "done",
                             !.read = content,
                             !.new_content = c.new_content,
                             !.result = c.result]]
    /\ UNCHANGED <<SSH_CONFIG, at_start, os_name, SAFE_ZONES, send2trash, fs,
                 last, steps>>

\* files.py:435: the file is opened for writing.
EditOpen(i) ==
    /\ calls[i].pc = "open"
    /\ fs' = open_truncating(fs, calls[i].args[1]).f
    /\ calls' = [calls EXCEPT ![i] = [@ EXCEPT !.pc = "write"]]
    /\ UNCHANGED <<SSH_CONFIG, at_start, os_name, SAFE_ZONES, send2trash,
                 last, steps>>

\* files.py:436-438: the new content is written and success returned.
EditWrite(i) ==
    /\ calls[i].pc = "write"
    /\ fs' = write_fd(fs, calls[i].args[1], calls[i].new_content)
    /\ calls' = [calls EXCEPT ![i] =
           [@ EXCEPT !.pc = "done",
                     !.turn = 1 + Cardinality({j \in 1..2 :
                                                 calls[j].turn > 0}),
                     !.result = <<"File edited successfully: ",
                                  calls[i].args[1]>>]]
    /\ UNCHANGED <<SSH_CONFIG, at_start, os_name, SAFE_ZONES, send2trash,
                 last, steps>>

NextEdit ==
    \/ \E i \in 1..2 : EditCheck(i)
    \/ \E i \in 1..2 : EditRead(i)
    \/ \E i \in 1..2 : EditOpen(i)
    \/ \E i \in 1..2 : EditWrite(i)

SpecEdit == InitEdit /\ [][NextEdit]_vars

----------------------------------------------------------------------------
(* The SSH tool, tools/ssh.py. *)

\* ssh.py:5-15
DEFAULT_ALLOWED_COMMANDS ==
    << <<"l", "s">>,
       <<"p", "w", "d">>,
       <<"w", "h", "o", "a", "m", "i">>,
       <<"h", "o", "s", "t", "n", "a", "m", "e">>,
       <<"u", "p", "t", "i", "m", "e">>,
       <<"d", "f">>,
       <<"f", "r", "e", "e">>,
       <<"c", "a", "t">>,
       <<"h", "e", "a", "d">>,
       <<"t", "a", "i", "l">>,
       <<"g", "r", "e", "p">>,
       <<"f", "i", "n", "d">>,
       <<"w", "c">>,
       <<"p", "s">>,
       <<"t", "o", "p">>,
       <<"h", "t", "o", "p">>,
       <<"d", "o", "c", "k", "e", "r">>,
       <<"d", "o", "c", "k", "e", "r", "-", "c", "o", "m", "p", "o", "s", "e">>,
       <<"g", "i", "t">>,
       <<"n", "p", "m">>,
       <<"n", "o", "d", "e">>,
       <<"p", "y", "t", "h", "o", "n">>,
       <<"p", "i", "p">>,
       <<"s", "y", "s", "t", "e", "m", "c", "t", "l">>,
       <<"s", "e", "r", "v", "i", "c", "e">>,
       <<"p", "i", "n", "g">>,
       <<"c", "u", "r", "l">>,
       <<"w", "g", "e", "t">>,
       <<"d", "a", "t", "e">>,
       <<"c", "a", "l">>,
       <<"e", "c", "h", "o">> >>

\* The characters str.strip() and str.split() take for blanks.
is_space(c) == c \in {" ", "\t", "\n", "\r"}

\* s.split(): the runs of characters of s that are not blanks, in order.
RECURSIVE str_split(_, _)
str_split(s, cur) ==
    IF s = <<>> THEN (IF cur = <<>> THEN <<>> ELSE <<cur>>)
    ELSE IF is_space(s[1])
    THEN (IF cur = <<>> THEN <<>> ELSE <<cur>>) \o str_split(Tail(s), <<>>)
    ELSE str_split(Tail(s), Append(cur, s[1]))

\* ssh.py:27-29: config = ssh_config or {}; its hosts, as (name, info)
\* pairs in the order of the file, and its allowed commands.
ssh_hosts(ssh_config) ==
    IF ssh_config.some THEN ssh_config.val.hosts ELSE <<>>
ssh_allowed_commands(ssh_config) ==
    IF ssh_config.some /\ ssh_config.val.allowed_commands.some
    THEN ssh_config.val.allowed_commands.val
    ELSE DEFAULT_ALLOWED_COMMANDS

\* The whitelist test on the beginning of the command, not on its first
\* word.
is_command_allowed_prefix(command, allowed_commands) ==
    \E i \in 1..Len(allowed_commands) :
        startswith(command, allowed_commands[i])

\* ssh.py:31-35
is_command_allowed(command, allowed_commands) ==
    LET cmd_name == IF str_split(command, <<>>) # <<>>
                    THEN str_split(command, <<>>)[1] ELSE <<>>
    IN  \E i \in 1..Len(allowed_commands) :
            \/ cmd_name = allowed_commands[i]
            \/ startswith(cmd_name, allowed_commands[i] \o <<" ">>)

\* ssh.py:60-157: ssh_execute.  net is what the network and the remote host
\* answer once a connection is tried.
ssh_execute(ssh_config, host_name, command, net) ==
    LET hosts == ssh_hosts(ssh_config)
        allowed_commands == ssh_allowed_commands(ssh_config)
        known == {i \in 1..Len(hosts) : hosts[i][1] = host_name}
        connected(info) ==
            LET t1 == << <<"connect", info.host.val, info.port,
                           info.user.val>> >>
                t2 == Append(t1, <<"exec_command", command>>)
            IN  IF net.connect = "AuthenticationException"
                THEN [result |-> <<"Error: Authentication failed for ",
                                   info.user.val, "@", info.host.val>>,
                      trace |-> t1]
                ELSE IF net.connect = "SSHException"
                THEN [result |-> <<"Error: SSH connection failed: ",
                                   "SSHException">>,
                      trace |-> t1]
                ELSE [result |->
                          (IF net.out # <<>> THEN <<"STDOUT:\n", net.out>>
                           ELSE <<>>)
                          \o (IF net.err # <<>> THEN <<"STDERR:\n", net.err>>
                              ELSE <<>>)
                          \o <<"Exit Code: ", net.exit_code>>,
                      trace |-> t2]
        with(info) ==
            IF ~truthy(info.host) \/ ~truthy(info.user)
            THEN [result |-> <<"Error: Host '", host_name,
                               "' is missing required 'host' or 'user' configuration.">>,
                  trace |-> <<>>]
            ELSE IF ~truthy(info.key_file) /\ ~truthy(info.password)
            THEN [result |-> <<"Error: Host '", host_name,
                               "' has no password or key_file configured.">>,
                  trace |-> <<>>]
            ELSE connected(info)
    IN  IF known = {}
        THEN [result |-> <<"Error: Unknown host '", host_name,
                           "'. Available hosts: ",
                           IF hosts = <<>> THEN <<"none">>
                           ELSE [i \in 1..Len(hosts) |-> hosts[i][1]]>>,
              trace |-> <<>>]
        ELSE IF ~is_command_allowed(command, allowed_commands)
        THEN [result |-> <<"Error: Command not allowed. Allowed commands: ",
                           allowed_commands>>,
              trace |-> <<>>]
        ELSE with(hosts[CHOOSE i \in known : \A j \in known : j <= i][2])

\* The hosts of the ssh entry of config.json: pi with a password, nas with
\* no user, box with neither password nor key file.
ConfiguredHosts ==
    << <<"pi", [host |-> Some(<<"h">>), port |-> 22, user |-> Some(<<"u">>),
                password |-> Some(<<"p">>), key_file |-> NoValue]>>,
       <<"nas", [host |-> Some(<<"h">>), port |-> 22, user |-> NoValue,
                 password |-> Some(<<"p">>), key_file |-> NoValue]>>,
       <<"box", [host |-> Some(<<"h">>), port |-> 2222,
                 user |-> Some(<<"u">>), password |-> NoValue,
                 key_file |-> NoValue]>> >>

\* The ssh entries the tool is run under: none, hosts with the default
\* commands, and hosts with the commands ls and "docker ps".
SshConfigs ==
    { NoValue,
      Some([hosts |-> ConfiguredHosts, allowed_commands |-> NoValue]),
      Some([hosts |-> ConfiguredHosts,
            allowed_commands |->
                Some(<< <<"l", "s">>,
                        <<"d", "o", "c", "k", "e", "r", " ", "p", "s">> >>)]) }

\* The host_name arguments: the three configured names and one that is not.
HostNames == {"pi", "nas", "box", "x"}

\* The command arguments.
Commands ==
    { <<"l", "s">>,
      <<"l", "s", " ", "-", "l">>,
      <<" ", "l", "s">>,
      <<"l", "s", "\t", "-", "l">>,
      <<"l", "s", "x">>,
      <<"r", "m">>,
      <<"r", "m", " ", "l", "s">>,
      <<>>,
      <<" ">>,
      <<"d", "o", "c", "k", "e", "r", " ", "p", "s">>,
      <<"l", "s", " ", "&", "&", " ", "r", "m">> }

\* What the network answers.
Nets ==
    { [connect |-> "ok", out |-> <<"o">>, err |-> <<>>, exit_code |-> 0],
      [connect |-> "ok", out |-> <<>>, err |-> <<"e">>, exit_code |-> 1],
      [connect |-> "AuthenticationException", out |-> <<>>, err |-> <<>>,
       exit_code |-> 0],
      [connect |-> "SSHException", out |-> <<>>, err |-> <<>>,
       exit_code |-> 0] }

InitSsh ==
    /\ os_name = "nt"
    /\ SAFE_ZONES = NoValue
    /\ send2trash = FALSE
    /\ fs = InitialDisk
    /\ at_start = Contained
    /\ calls = <<>>
    /\ SSH_CONFIG \in SshConfigs
    /\ last = Idle
    /\ steps = 0

SshExecute ==
    /\ steps < MaxSteps
    /\ \E h \in HostNames, c \in Commands, net \in Nets :
        \E out \in {ssh_execute(SSH_CONFIG, h, c, net)} :
            /\ steps' = steps + 1
            /\ last' = [Idle EXCEPT !.op = "ssh_execute", !.args = <<h, c>>,
                                    !.result = out.result,
                                    !.trace = out.trace]
            /\ UNCHANGED <<SSH_CONFIG, calls, at_start, os_name, SAFE_ZONES,
                           send2trash, fs>>

NextSsh == SshExecute

SpecSsh == InitSsh /\ [][NextSsh]_vars

----------------------------------------------------------------------------
(* Zone containment. *)

\* The zones a check runs over: the configured ones, or the three defaults
\* when there is no entry or an empty list.
Zones == IF last.op = "is_safe_path" THEN main_zones ELSE allowed_zones

\* The normalized form of a path or zone: absolute, case-folded on nt.
Norm(p) == normcase(abspath(p))

\* A zone check has been made on the path last.args[1].
ZoneChecked == last.op \in {"is_in_safe_zone", "is_safe_path"}

\* C1 as stated: a zone check reports path P contained if and only if for
\* some zone Z normalized P equals normalized Z or starts with normalized Z
\* followed by a separator.
C1_AsStated ==
    ZoneChecked =>
        (last.result <=>
            \E i \in 1..Len(Zones) :
                \/ Norm(last.args[1]) = Norm(Zones[i])
                \/ startswith(Norm(last.args[1]), Norm(Zones[i]) \o <<sep>>))

\* Normalized zone z ending with exactly the separator it has or is given.
Terminated(z) == IF endswith(z, <<sep>>) THEN z ELSE z \o <<sep>>

\* C1: a zone check reports path P contained if and only if for some zone Z
\* normalized P equals normalized Z or starts with normalized Z ended by a
\* separator, which is appended only when normalized Z does not already end
\* with one (a volume's root does); a path that only shares a string prefix
\* with Z is not contained.
C1_Containment ==
    ZoneChecked =>
        (last.result <=>
            \E i \in 1..Len(Zones) :
                \/ Norm(last.args[1]) = Norm(Zones[i])
                \/ startswith(Norm(last.args[1]), Terminated(Norm(Zones[i]))))

\* C1 witness: a checked path that has a zone as a string prefix, with no
\* directory boundary after it, is reported as not contained.
C1_Witness ==
    /\ ZoneChecked
    /\ \E i \in 1..Len(Zones) :
          /\ startswith(Norm(last.args[1]), Norm(Zones[i]))
          /\ ~endswith(Norm(Zones[i]), <<sep>>)
    /\ last.result = FALSE

----------------------------------------------------------------------------
(* The permission rules of the file tools. *)

\* The path a tool hands to the zone check: write_file and create_directory
\* put a relative path under the workspace first.
Checked ==
    IF last.op \in {"write_file", "create_directory"}
    THEN in_workspace(last.args[1]) ELSE last.args[1]

\* The text a tool returns when it refuses arguments args on zone grounds;
\* nothing in it comes from the disk.
Denial(op, args) ==
    CASE op = "edit_file" ->
             <<"Error: Edit operation denied. Path must be in a safe zone.\n\nSafe Zones:\n",
               get_safe_zones_str>>
      [] op = "write_file" ->
             <<"Error: Write operation denied. Path must be in a safe zone.\n\nSafe Zones:\n",
               get_safe_zones_str>>
      [] op = "delete_file" ->
             <<"Error: Delete operation denied. Path must be in a safe zone.\n\nSafe Zones:\n",
               get_safe_zones_str>>
      [] op = "create_directory" ->
             <<"Error: Create directory denied. Path must be in a safe zone.\n\nSafe Zones:\n",
               get_safe_zones_str>>
      [] op = "get_download_url" ->
             <<"Error: Download denied. File must be in a safe zone.\n\nSafe Zones:\n",
               get_safe_zones_str>>
      [] op = "copy_file" ->
             <<"Error: Copy destination must be in a safe zone.\nDestination: ",
               args[2], "\n\nSafe Zones:\n", get_safe_zones_str>>
      [] op = "move_file" ->
             IF ~is_in_safe_zone(args[1])
             THEN <<"Error: Cannot move from outside safe zone.\nSource: ",
                    args[1], "\n\nSafe Zones:\n", get_safe_zones_str>>
             ELSE <<"Error: Cannot move to outside safe zone.\nDestination: ",
                    args[2], "\n\nSafe Zones:\n", get_safe_zones_str>>

\* The last call was refused on zone grounds and left the disk as it was.
Refused == last.result = Denial(last.op, last.args) /\ fs = last.before

\* C2: edit_file, write_file, delete_file and create_directory change the
\* disk only for a path inside some zone: a path outside every zone gets the
\* denial and the disk stays as it was, and a path inside a zone (the zone's
\* root included) is not denied.
C2_WriteToolsGated ==
    last.op \in {"edit_file", "write_file", "delete_file", "create_directory"}
        => IF is_in_safe_zone(Checked) THEN last.result # Denial(last.op, last.args)
           ELSE Refused

\* C2 witness: delete_file on the root of a zone has removed it.
C2_Witness ==
    /\ last.op = "delete_file"
    /\ \E i \in 1..Len(allowed_zones) :
          /\ Norm(last.args[1]) = Norm(allowed_zones[i])
          /\ resolve(last.before, last.args[1]).node \in DOMAIN last.before
          /\ resolve(last.before, last.args[1]).node \notin DOMAIN fs
    /\ last.result = <<"Permanently deleted: ", last.args[1]>>

\* C3: move_file is denied, and nothing is moved, when its source or its
\* destination is outside every zone, and is not denied when both are inside;
\* with the source outside and the destination inside, copy_file called with
\* the same arguments is not denied.
C3_MoveNeedsBoth ==
    last.op = "move_file"
        => IF is_in_safe_zone(last.args[1]) /\ is_in_safe_zone(last.args[2])
           THEN last.result[1] \notin
                    {"Error: Cannot move from outside safe zone.\nSource: ",
                     "Error: Cannot move to outside safe zone.\nDestination: "}
           ELSE /\ Refused
                /\ is_in_safe_zone(last.args[2])
                       => copy_file(last.before, last.args[1], last.args[2]).result
                              # Denial("copy_file", last.args)

\* C3 witness: a move of an existing file outside every zone to a place
\* inside a zone is denied, and copy_file with the same arguments copies it.
C3_Witness ==
    /\ last.op = "move_file"
    /\ ~is_in_safe_zone(last.args[1])
    /\ is_in_safe_zone(last.args[2])
    /\ isfile(last.before, last.args[1])
    /\ Refused
    /\ copy_file(last.before, last.args[1], last.args[2]).result[1] = "Copied: "

\* C4: copy_file is decided by its destination alone: with the destination
\* inside some zone it is not denied, wherever the source is; with the
\* destination outside every zone it is denied and the disk stays as it was,
\* wherever the source is.
C4_CopyByDestination ==
    last.op = "copy_file"
        => IF is_in_safe_zone(last.args[2])
           THEN last.result # Denial("copy_file", last.args)
           ELSE Refused

\* C4 witness: a file outside every zone has been copied to a place inside
\* a zone.
C4_Witness ==
    /\ last.op = "copy_file"
    /\ ~is_in_safe_zone(last.args[1])
    /\ is_in_safe_zone(last.args[2])
    /\ last.result = <<"Copied: ", last.args[1], " -> ", last.args[2]>>
    /\ fs # last.before

\* C5: list_directory, read_file and get_file_info answer by what is on the
\* disk, whatever the zones are: a path that is there is listed, read or
\* described, inside a zone or not, get_file_info only reports whether it is
\* in a zone, and the disk stays as it was.
C5_ReadNeverDenied ==
    /\ last.op = "list_directory" =>
          LET path == IF last.args[1] = <<>> THEN DEFAULT_WORKSPACE
                      ELSE last.args[1]
          IN  /\ fs = last.before
              /\ last.result[1] =
                     IF ~exists(fs, path) THEN "Error: Path does not exist: "
                     ELSE IF ~isdir(fs, path) THEN "Error: Not a directory: "
                     ELSE IF \E n \in DOMAIN fs :
                                 n # resolve(fs, path).node
                                 /\ parent(n) = resolve(fs, path).node
                     THEN "Contents of "
                     ELSE "Directory is empty: "
    /\ last.op = "read_file" =>
          /\ fs = last.before
          /\ last.result =
                 IF ~exists(fs, last.args[1])
                 THEN <<"Error: File does not exist: ", last.args[1]>>
                 ELSE IF ~isfile(fs, last.args[1])
                 THEN <<"Error: Not a file: ", last.args[1]>>
                 ELSE <<"", fs[resolve(fs, last.args[1]).node].data>>
    /\ last.op = "get_file_info" =>
          /\ fs = last.before
          /\ IF ~exists(fs, last.args[1])
             THEN last.result = <<"Error: Path does not exist: ", last.args[1]>>
             ELSE /\ last.result[1] = "Path: "
                  /\ last.result[7] = "In Safe Zone: "
                  /\ last.result[8] = IF is_in_safe_zone(last.args[1])
                                      THEN "Yes" ELSE "No"

\* C5 witness: read_file has returned the text of a file outside every zone.
C5_Witness ==
    /\ last.op = "read_file"
    /\ ~is_in_safe_zone(last.args[1])
    /\ isfile(fs, last.args[1])
    /\ last.result = <<"", fs[resolve(fs, last.args[1]).node].data>>

\* C7: get_download_url tests, in this order, that the path exists, that it
\* is a regular file and that it is inside some zone, and returns the error
\* of the first test that fails; it returns a URL exactly for an existing
\* regular file inside some zone, and leaves the disk as it was.
C7_UrlErrorsInOrder ==
    last.op = "get_download_url" =>
        /\ fs = last.before
        /\ last.result =
               IF ~exists(fs, last.args[1])
               THEN <<"Error: File does not exist: ", last.args[1]>>
               ELSE IF ~isfile(fs, last.args[1])
               THEN <<"Error: Not a file: ", last.args[1]>>
               ELSE IF ~is_in_safe_zone(last.args[1])
               THEN Denial("get_download_url", last.args)
               ELSE <<"Download URL: ", BASE_URL, "/download?path=",
                      quote(last.args[1])>>

\* C7 witness: for a directory outside every zone get_download_url has
\* returned the not-a-file error, not the denial.
C7_Witness ==
    /\ last.op = "get_download_url"
    /\ isdir(fs, last.args[1])
    /\ ~is_in_safe_zone(last.args[1])
    /\ last.result = <<"Error: Not a file: ", last.args[1]>>

\* C10: when edit_file, move_file, delete_file or copy_file fails its zone
\* check it has made no call on the disk, the disk is as it was, and what it
\* returns is the denial text, which is made of the arguments and the zones
\* alone and so is the same whether or not the paths exist.
C10_CheckBeforeDisk ==
    /\ last.op \in {"edit_file", "delete_file"} /\ ~is_in_safe_zone(last.args[1])
          => Refused /\ last.trace = <<>>
    /\ last.op = "move_file"
       /\ (~is_in_safe_zone(last.args[1]) \/ ~is_in_safe_zone(last.args[2]))
          => Refused /\ last.trace = <<>>
    /\ last.op = "copy_file" /\ ~is_in_safe_zone(last.args[2])
          => Refused /\ last.trace = <<>>

\* C10 witness: edit_file on an existing file outside every zone has
\* returned the denial without a call on the disk.
C10_Witness ==
    /\ last.op = "edit_file"
    /\ ~is_in_safe_zone(last.args[1])
    /\ isfile(last.before, last.args[1])
    /\ last.result = Denial("edit_file", last.args)
    /\ last.trace = <<>>

----------------------------------------------------------------------------
(* The download gateway. *)

\* The last request was GET /download?path=<p, quoted>.
Asked(p) == last.op = "http" /\ last.args = <<download_path, path_eq \o quote(p)>>

\* The paths a download request names.
AskedPaths == ToolPaths \ {<<>>}

\* An answer that carries no file bytes: one of the gateway's error texts,
\* and no attachment name.
NoBytes(res) ==
    /\ res.body \in { <<"Error: Missing 'path' parameter.">>,
                     <<"Error: File not found.">>,
                     <<"Error: Access denied. File is not in a Safe Zone.">> }
    /\ res.filename = NoValue

\* C6: a /download request for a path that does not exist is answered 404,
\* inside a zone or not, and one for an existing path outside every zone is
\* answered 403; neither answer carries file bytes.
C6_DownloadRefusals ==
    \A p \in AskedPaths :
        Asked(p) =>
            /\ ~exists(fs, p)
                   => last.result.status = 404 /\ NoBytes(last.result)
            /\ exists(fs, p) /\ ~is_safe_path(p)
                   => last.result.status = 403 /\ NoBytes(last.result)

\* C6 witness: a request for a path that does not exist and is outside every
\* zone has been answered 404.
C6_Witness ==
    \E p \in AskedPaths :
        /\ Asked(p)
        /\ ~exists(fs, p)
        /\ ~is_safe_path(p)
        /\ last.result.status = 404

\* C8 as stated: a /download request for an existing path inside some zone
\* is answered 200 with the file's bytes and the path's base name as the
\* attachment's file name.
C8_AsStated ==
    \A p \in AskedPaths :
        Asked(p) /\ exists(fs, p) /\ is_safe_path(p)
            => /\ last.result.status = 200
               /\ last.result.body = fs[resolve(fs, p).node].data
               /\ last.result.filename = Some(basename(p))

\* C8 witness: a request for a directory inside a zone has been answered
\* 500.
C8_Witness ==
    \E p \in AskedPaths :
        /\ Asked(p)
        /\ isdir(fs, p)
        /\ is_safe_path(p)
        /\ last.result.status = 500

\* C9: a /download request whose query gives path no value (no query, no
\* path field, a path field with no "=" or with nothing after it) is
\* answered 400 with no call on the disk; a request that gives path twice is
\* answered as the request that gives only the first value.
C9_MissingPath ==
    /\ last.op = "http" /\ last.args[1] = download_path
       /\ last.args[2] \in
              { <<>>, path_key, path_eq,
                <<"x", "=">> \o quote(P(<< <<"d">>, <<"a">> >>)) }
          => /\ last.result.status = 400
             /\ NoBytes(last.result)
             /\ last.trace = <<>>
    /\ \A p \in AskedPaths, q \in AskedPaths :
          /\ last.op = "http"
          /\ last.args = <<download_path,
                           path_eq \o quote(p) \o <<"&">> \o path_eq \o quote(q)>>
          => last.result = download(fs, path_eq \o quote(p))

\* C9 witness: a request whose path field has an empty value has been
\* answered 400.
C9_Witness ==
    /\ last.op = "http"
    /\ last.args = <<download_path, path_eq>>
    /\ last.result.status = 400
    /\ last.trace = <<>>

----------------------------------------------------------------------------
(* What a zone denial says. *)

\* C11: a call refused because a path is outside every zone returns a text
\* that ends with the list of all zones in force; for move_file the text
\* names the source when the source is outside and otherwise the
\* destination, and for copy_file it names the destination (also when the
\* source is inside a zone).
C11_DenialsListZones ==
    LET r == last.result
    IN  /\ last.op \in {"edit_file", "write_file", "delete_file",
                        "create_directory"}
           /\ ~is_in_safe_zone(Checked)
              => Len(r) = 2 /\ r[2] = allowed_zones
        /\ last.op = "get_download_url"
           /\ isfile(last.before, last.args[1])
           /\ ~is_in_safe_zone(last.args[1])
              => Len(r) = 2 /\ r[2] = allowed_zones
        /\ last.op = "move_file" /\ ~is_in_safe_zone(last.args[1])
              => /\ Len(r) = 4
                 /\ r[1] = "Error: Cannot move from outside safe zone.\nSource: "
                 /\ r[2] = last.args[1]
                 /\ r[4] = allowed_zones
        /\ last.op = "move_file" /\ is_in_safe_zone(last.args[1])
           /\ ~is_in_safe_zone(last.args[2])
              => /\ Len(r) = 4
                 /\ r[1] = "Error: Cannot move to outside safe zone.\nDestination: "
                 /\ r[2] = last.args[2]
                 /\ r[4] = allowed_zones
        /\ last.op = "copy_file" /\ ~is_in_safe_zone(last.args[2])
              => /\ Len(r) = 4
                 /\ r[1] = "Error: Copy destination must be in a safe zone.\nDestination: "
                 /\ r[2] = last.args[2]
                 /\ r[4] = allowed_zones

\* C11 witness: a copy from inside a zone to a path outside every zone has
\* been refused with the destination and the zones in the text, and the
\* disk is as it was.
C11_Witness ==
    /\ last.op = "copy_file"
    /\ is_in_safe_zone(last.args[1])
    /\ ~is_in_safe_zone(last.args[2])
    /\ Len(last.result) = 4
    /\ last.result[2] = last.args[2]
    /\ last.result[4] = allowed_zones
    /\ fs = last.before

----------------------------------------------------------------------------
(* The request router and the Host rewrite. *)

screenshots_slash == screenshots_prefix \o <<"/">>

\* C12 as stated: a request is handed to the static screenshot files exactly
\* when its path begins with /screenshots/, and the path handed on is the
\* request's path without the prefix.
C12_AsStated ==
    last.op = "http" =>
        /\ last.result.app = "static"
              <=> startswith(last.scope.path, screenshots_slash)
        /\ last.result.app = "static"
              => screenshots_prefix \o last.result.scope.path = last.scope.path

\* C12 witness: a request for /screenshotsX has been handed to the static
\* screenshot files with the path X.
C12_Witness ==
    /\ last.op = "http"
    /\ last.scope.path = screenshots_prefix \o <<"X">>
    /\ last.result.app = "static"
    /\ last.result.scope.path = <<"X">>

\* The headers of a list that are not Host headers, in order.
non_host(headers) == SelectSeq(headers, LAMBDA h : h[1] # "host")

HostRewritten ==
    /\ last.scope.type = last.inbound.type
    /\ last.scope.path = last.inbound.path
    /\ last.scope.query_string = last.inbound.query_string
    /\ Len(last.scope.headers) = Len(last.inbound.headers)
    /\ \A i \in 1..Len(last.inbound.headers) :
          IF last.inbound.type = "http" /\ last.inbound.headers[i][1] = "host"
          THEN last.scope.headers[i] = <<"host", "localhost:9999">>
          ELSE last.scope.headers[i] = last.inbound.headers[i]

\* C14 as stated: every HTTP request the router gets has a Host header of
\* value localhost:9999, every Host header replaced in place and the other
\* headers kept; other scopes are untouched.
C14_AsStated ==
    last.op = "http" =>
        /\ HostRewritten
        /\ last.inbound.type = "http"
              => \E i \in 1..Len(last.scope.headers) :
                     last.scope.headers[i] = <<"host", "localhost:9999">>

\* C14: every Host header of an HTTP request the router gets has the value
\* localhost:9999, each replaced in place, with every other header and the
\* order kept, so a request sent with a Host header has one of that value
\* and a request sent without one gets none; other scopes are untouched.
C14_HostRewritten ==
    last.op = "http" =>
        /\ HostRewritten
        /\ last.inbound.type = "http"
              => /\ \A i \in 1..Len(last.scope.headers) :
                        last.scope.headers[i][1] = "host"
                            => last.scope.headers[i][2] = "localhost:9999"
                 /\ (\E i \in 1..Len(last.inbound.headers) :
                        last.inbound.headers[i][1] = "host")
                    <=> (\E i \in 1..Len(last.scope.headers) :
                            last.scope.headers[i]
                                = <<"host", "localhost:9999">>)

\* C14 witness: a request sent with two Host headers among others has
\* reached the tool transport with both rewritten and the rest as sent.
C14_Witness ==
    /\ last.op = "http"
    /\ last.inbound.type = "http"
    /\ Len(last.inbound.headers) = 4
    /\ last.result.app = "mcp"
    /\ last.result.scope.headers =
           << <<"accept", "*/*">>, <<"host", "localhost:9999">>,
              <<"x-forwarded-host", "host">>, <<"host", "localhost:9999">> >>

----------------------------------------------------------------------------
(* The zones in force. *)

\* C15 as stated: the zones a check runs over are the configured entries
\* with their environment variables and leading ~ expanded, so a zone check
\* answers whether the path is in one of the expanded directories.
C15_AsStated ==
    ZoneChecked =>
        last.result = in_zones(Norm(last.args[1]),
                               abspath_each(get_safe_zones(SAFE_ZONES)))

\* C15 witness: with the zone written as ~, $H or %H% in the configuration,
\* the user's home directory has been reported as not contained.
C15_Witness ==
    /\ ZoneChecked
    /\ truthy(SAFE_ZONES)
    /\ get_safe_zones(SAFE_ZONES) = <<userhome>>
    /\ last.args[1] = userhome
    /\ last.result = FALSE

\* The user's Documents, Downloads and Desktop directories.
DefaultDirs ==
    << userhome \o <<"/">> \o Documents,
       userhome \o <<"/">> \o Downloads,
       userhome \o <<"/">> \o Desktop >>

\* C16: the zones of the file tools and the zones of the download gateway
\* are never empty: both are the user's Documents, Downloads and Desktop
\* directories when the configuration has no safe_zones entry or an empty
\* list, and both are the configured entries, each made absolute, otherwise;
\* a zone check answers by those zones.
C16_ZonesNeverEmpty ==
    LET expected == abspath_each(IF ~SAFE_ZONES.some \/ SAFE_ZONES.val = <<>>
                                 THEN DefaultDirs ELSE SAFE_ZONES.val)
    IN  /\ allowed_zones # <<>> /\ main_zones # <<>>
        /\ allowed_zones = expected /\ main_zones = expected
        /\ ZoneChecked
              => last.result = in_zones(Norm(last.args[1]), expected)

\* C16 witness: under an empty safe_zones list the gateway's check has
\* reported a file in the user's Documents directory as contained.
C16_Witness ==
    /\ SAFE_ZONES = Some(<<>>)
    /\ last.op = "is_safe_path"
    /\ last.args[1] = DEFAULT_SAFE_ZONES[1] \o <<sep, "a">>
    /\ last.result = TRUE

\* C17: no tool call and no request changes the configured zones, and
\* after every sequence of calls the tools' zone check and the gateway's
\* zone check answer for every path what they answered when the server
\* started, whatever the calls did to the disk.
C17_ZonesFixed ==
    /\ [](Contained = at_start)
    /\ [][SAFE_ZONES' = SAFE_ZONES /\ os_name' = os_name]_vars

\* C17 witness: delete_file has removed the root directory of a zone, and a
\* path under that root is still reported as contained.
C17_Witness ==
    /\ last.op = "delete_file"
    /\ isdir(last.before, last.args[1])
    /\ ~exists(fs, last.args[1])
    /\ Norm(last.args[1]) = Norm(allowed_zones[1])
    /\ is_in_safe_zone(last.args[1] \o <<sep, "a">>)
    /\ is_safe_path(last.args[1] \o <<sep, "a">>)

\* C18 as stated: a zone check of the empty path answers that it is
\* contained in no zone, under every zone configuration.
C18_AsStated ==
    ZoneChecked /\ last.args[1] = <<>> => last.result = FALSE

\* C18 witness: with a zone that holds the working directory, a zone check
\* of the empty path has answered that it is contained.
C18_Witness ==
    /\ ZoneChecked
    /\ last.args[1] = <<>>
    /\ \E i \in 1..Len(Zones) : zone_holds(Norm(getcwd), Zones[i])
    /\ last.result = TRUE

----------------------------------------------------------------------------
(* Failures and the download URL. *)

\* C19 as stated: every file tool returns a text, also when the path is
\* missing or of the wrong type, and the download gateway answers every
\* request it does not serve with status 400, 403 or 404.
C19_AsStated ==
    /\ last.op \notin {"idle", "http"}
          => Len(last.result) >= 1 /\ last.result[1] \in STRING
    /\ last.op = "http" /\ last.result.app = "download"
          => last.result.status \in {200, 400, 403, 404}

\* C19 witness: the gateway, asked for a directory, has raised RuntimeError
\* instead of answering 400, 403 or 404.
C19_Witness ==
    /\ last.op = "http"
    /\ last.result.app = "download"
    /\ last.trace # <<>>
    /\ last.result.status = 500
    /\ last.result.body = <<"RuntimeError">>

\* C20 as stated: for a file inside a zone get_download_url returns the
\* base URL, /download?path= and the URL-encoded absolute form of the path,
\* also when the path was given relative to the working directory.
C20_AsStated ==
    last.op = "get_download_url"
    /\ isfile(last.before, last.args[1])
    /\ is_in_safe_zone(last.args[1])
        => last.result = <<"Download URL: ", BASE_URL, "/download?path=",
                           quote(abspath(last.args[1]))>>

\* C20 witness: for a file inside a zone given by a relative path,
\* get_download_url has returned a URL with the relative path encoded.
C20_Witness ==
    /\ last.op = "get_download_url"
    /\ last.args[1] \in RelativePaths
    /\ last.result = <<"Download URL: ", BASE_URL, "/download?path=",
                       quote(last.args[1])>>
    /\ quote(last.args[1]) # quote(abspath(last.args[1]))

----------------------------------------------------------------------------
(* Normalization. *)

\* C21: the normal form of a path (absolute, then case-folded as the
\* platform folds) is its own normal form, and a zone check answers for the
\* normal form of a path what it answers for the path.
C21_NormalizeIdempotent ==
    ZoneChecked =>
        /\ Norm(Norm(last.args[1])) = Norm(last.args[1])
        /\ in_zones(Norm(Norm(last.args[1])), Zones) = last.result

\* C21 witness: a path that is not in normal form has been reported as
\* contained, as its normal form is.
C21_Witness ==
    /\ ZoneChecked
    /\ Norm(last.args[1]) # last.args[1]
    /\ last.result = TRUE
    /\ in_zones(Norm(Norm(last.args[1])), Zones)

----------------------------------------------------------------------------
(* The workspace. *)

\* The text write_file and create_directory return when they have made the
\* entry.
Made(op, path) ==
    IF op = "write_file"
    THEN <<"File written successfully: ", path>>
    ELSE <<"Directory created: ", path>>

\* C22 as stated: write_file and create_directory put a relative path under
\* the default workspace before the zone check, and with the default zones
\* they make the entry there and do not refuse.
C22_AsStated ==
    last.op \in {"write_file", "create_directory"}
    /\ ~isabs(last.args[1])
    /\ ~truthy(SAFE_ZONES)
        => /\ last.result = Made(last.op, join(DEFAULT_WORKSPACE, last.args[1]))
           /\ exists(fs, join(DEFAULT_WORKSPACE, last.args[1]))

\* C22 witness: with the default zones, create_directory of the bare name n
\* has been refused, the workspace path having failed the zone check.
C22_Witness ==
    /\ last.op = "create_directory"
    /\ last.args[1] = <<"n">>
    /\ ~truthy(SAFE_ZONES)
    /\ Checked = join(DEFAULT_WORKSPACE, <<"n">>)
    /\ ~is_in_safe_zone(Checked)
    /\ Refused
    /\ ~exists(fs, Checked)

----------------------------------------------------------------------------
(* Creating and editing. *)

\* C23: create_directory on a path inside a zone that is a directory
\* already returns the success text and leaves the disk as it was, and
\* after any create_directory on a path inside a zone a second call with
\* the same path returns what the first returned and changes nothing.
C23_CreateIdempotent ==
    last.op = "create_directory" /\ is_in_safe_zone(Checked) =>
        /\ isdir(last.before, Checked)
              => /\ last.result = Made("create_directory", Checked)
                 /\ fs = last.before
        /\ \E again \in {create_directory(fs, last.args[1])} :
              again.result = last.result /\ again.f = fs

\* C23 witness: create_directory has been called on a directory that a
\* call before it made inside a zone, and has returned the success text
\* with the disk as it was.
C23_Witness ==
    /\ last.op = "create_directory"
    /\ is_in_safe_zone(Checked)
    /\ ~exists(InitialDisk, Checked)
    /\ isdir(last.before, Checked)
    /\ last.result = Made("create_directory", Checked)
    /\ fs = last.before

----------------------------------------------------------------------------
(* Letter case. *)

\* The same letter in the other case, for the letters of the paths checked.
OtherCase(c) ==
    CASE c = "d" -> "D"
      [] c = "D" -> "d"
      [] c = "a" -> "A"
      [] c = "A" -> "a"
      [] OTHER -> c

\* The paths that differ from p in letter case only, p among them.
RECURSIVE CaseVariants(_)
CaseVariants(p) ==
    IF p = <<>> THEN {<<>>}
    ELSE { <<c>> \o rest : c \in {p[1], OtherCase(p[1])},
                           rest \in CaseVariants(Tail(p)) }

\* C24: on nt every path that differs from the checked path in letter case
\* only receives the decision the checked path received; on posix a path is
\* contained only if its absolute form begins with the absolute form of
\* some zone letter for letter.
C24_CaseFolding ==
    ZoneChecked =>
        /\ os_name = "nt" =>
              \A q \in CaseVariants(last.args[1]) :
                  in_zones(Norm(q), Zones) = last.result
        /\ os_name = "posix" /\ last.result = TRUE =>
              \E i \in 1..Len(Zones) :
                  LET ap == abspath(last.args[1])
                      az == abspath(Zones[i])
                  IN  /\ Len(ap) >= Len(az)
                      /\ SubSeq(ap, 1, Len(az)) = az

\* C24 witness: on nt a path written with a capital letter has been
\* checked and found contained in a zone written in small letters.
C24_Witness ==
    /\ ZoneChecked
    /\ os_name = "nt"
    /\ SAFE_ZONES = Some(<< P(<< <<"d">> >>) >>)
    /\ \E i \in 1..Len(last.args[1]) : last.args[1][i] = "D"
    /\ last.result = TRUE

\* On posix a path that differs from the zone in letter case only has been
\* checked and found outside it.
C24_PosixRefused ==
    /\ ZoneChecked
    /\ os_name = "posix"
    /\ SAFE_ZONES = Some(<< P(<< <<"d">> >>) >>)
    /\ last.args[1] = <<"/", "D">>
    /\ last.result = FALSE

----------------------------------------------------------------------------
(* Calls side by side. *)

\* The two calls are over.
BothDone == \A i \in 1..2 : calls[i].pc = "done"

\* The two calls edit one file.
SameFile == calls[1].args[1] = calls[2].args[1]

\* The call that wrote last, if some call wrote.
Wrote == {i \in 1..2 : calls[i].turn > 0}
LastWriter == CHOOSE i \in Wrote : \A j \in Wrote : calls[j].turn <= calls[i].turn

\* The content of the file the two calls edit.
Edited == fs[resolve(fs, calls[1].args[1]).node].data

\* The call alone on the disk as it was would have edited the file.
AloneSucceeds(i) ==
    edit_file(InitialDisk, calls[i].args[1], calls[i].args[2],
              calls[i].args[3], calls[i].args[4]).result
        = <<"File edited successfully: ", calls[i].args[1]>>

----------------------------------------------------------------------------
(* What edit_file replaces. *)

\* Where the leftmost occurrences of old that do not overlap begin in s,
\* looking from position i on.
RECURSIVE Occurrences(_, _, _)
Occurrences(s, old, i) ==
    IF i + Len(old) - 1 > Len(s) THEN <<>>
    ELSE IF SubSeq(s, i, i + Len(old) - 1) = old
    THEN <<i>> \o Occurrences(s, old, i + Len(old))
    ELSE Occurrences(s, old, i + 1)

\* s from position i on, with new in place of old at the positions chosen
\* and every other character as it is.
RECURSIVE Rebuilt(_, _, _, _, _)
Rebuilt(s, i, chosen, old, new) ==
    IF i > Len(s) THEN <<>>
    ELSE IF i \in chosen
    THEN new \o Rebuilt(s, i + Len(old), chosen, old, new)
    ELSE <<s[i]>> \o Rebuilt(s, i + 1, chosen, old, new)

\* The content edit_file is to leave: new_text in place of the leftmost
\* min(count, n) of the n occurrences of old_text, of all n when count is
\* negative.
Expected(content, old, new, count) ==
    LET occ == Occurrences(content, old, 1)
        k == IF count < 0 \/ count > Len(occ) THEN Len(occ) ELSE count
    IN  Rebuilt(content, 1, {occ[j] : j \in 1..k}, old, new)

\* The file edit_file was called on, as the call found it.
EditedBefore == last.before[resolve(last.before, last.args[1]).node].data

C26_CountZero ==
    /\ last.op = "edit_file"
    /\ is_in_safe_zone(last.args[1])
    /\ isfile(last.before, last.args[1])
    /\ last.args[4] = 0
    /\ EditedBefore = <<"x", "x">>
    /\ fs = last.before
    /\ last.result = <<"Warning: No changes were made (replacement logic returned same content).">>

----------------------------------------------------------------------------
(* The tools and the gateway together. *)

\* The request for the URL get_download_url has returned, as the router
\* gets it.
UrlScope ==
    [type |-> "http", path |-> download_path,
     query_string |-> path_eq \o last.result[4], headers |-> <<>>]

\* The last call was a file tool's, on the path last.args[1].
ToolCalled == last.op \notin {"idle", "http", "list_safe_zones"}

\* C27: the tools' zone check and the gateway's give the same answer, on
\* the paths of the calls at the start and on the path of every call made;
\* and the URL get_download_url returns is the /download route with a path
\* parameter that parse_qs decodes to the very path given, which the router
\* serves with status 200 from the disk as it is.
C27_GatewayAgrees ==
    /\ at_start.tools = at_start.gateway
    /\ ToolCalled => is_in_safe_zone(last.args[1]) = is_safe_path(last.args[1])
    /\ last.op = "get_download_url" /\ last.result[1] = "Download URL: " =>
          /\ last.result[3] = "/download?path="
          /\ parse_qs_get(UrlScope.query_string, path_key)
                 = Some(<<last.args[1]>>)
          /\ \E res \in {CombinedApp(fs, UrlScope)} :
                 /\ res.app = "download"
                 /\ res.status = 200
                 /\ res.body = fs[resolve(fs, last.args[1]).node].data

\* C27 witness: on nt get_download_url has returned a URL whose path
\* parameter is written with escapes, and the router serves it with 200.
C27_Witness ==
    /\ os_name = "nt"
    /\ last.op = "get_download_url"
    /\ last.result[1] = "Download URL: "
    /\ last.result[4] # last.args[1]
    /\ CombinedApp(fs, UrlScope).status = 200

\* Under every zone configuration and on every path of the zone checks, the
\* tools' check and the gateway's give the same answer.
ZoneChecksAgree ==
    ZoneChecked => is_in_safe_zone(last.args[1]) = is_safe_path(last.args[1])

----------------------------------------------------------------------------
(* The disk outside the zones. *)

\* Node n of disk f is as it was at first: there or not there as then, and
\* with the content it had.
AsAtFirst(f, n) ==
    /\ (n \in DOMAIN f) = (n \in DOMAIN InitialDisk)
    /\ n \in DOMAIN f => f[n] = InitialDisk[n]

\* C28 as stated: after any calls of the file tools every node outside all
\* zones is there or not there as at first, with the content it had.
C28_AsStated ==
    \A n \in DOMAIN fs \cup DOMAIN InitialDisk :
        ~in_zones(n, allowed_zones) => AsAtFirst(fs, n)

\* C28 witness: create_directory on a zone that was not on the disk has
\* made the zone's parent directory, which lies outside every zone.
C28_Witness ==
    /\ last.op = "create_directory"
    /\ SAFE_ZONES = Some(<<MissingZone>>)
    /\ last.args[1] = MissingZone
    /\ last.result = Made("create_directory", MissingZone)
    /\ ~exists(InitialDisk, dirname(MissingZone))
    /\ isdir(fs, dirname(MissingZone))
    /\ ~is_in_safe_zone(dirname(MissingZone))

----------------------------------------------------------------------------
(* Dot segments. *)

\* The names left of a path's components, read from the left: an empty
\* component and "." leave the names as they are, ".." takes the last name
\* away (none at the root), any other component is one name more.
RECURSIVE Walk(_, _)
Walk(comps, names) ==
    IF comps = <<>> THEN names
    ELSE Walk(Tail(comps),
              IF Head(comps) \in {<<>>, <<".">>} THEN names
              ELSE IF Head(comps) = <<".", ".">>
              THEN SubSeq(names, 1, Len(names) - 1)
              ELSE Append(names, Head(comps)))

\* The root of the volume the process works on.
Root == IF os_name = "nt" THEN <<"C", ":", "\\">> ELSE <<"/">>

\* The place a path names: from the root for a path that begins with the
\* root or with a separator, from the working directory otherwise.
Resolved(p) ==
    Root \o join_str(
        IF startswith(p, Root)
        THEN Walk(split(From(p, Len(Root) + 1), sep), <<>>)
        ELSE IF startswith(p, <<sep>>) THEN Walk(split(p, sep), <<>>)
        ELSE Walk(split(p, sep),
                  Walk(split(From(getcwd, Len(Root) + 1), sep), <<>>)),
        sep)

\* The path has a "." or a ".." among its components.
DotSegments(p) ==
    LET comps == split(p, sep)
    IN  \E i \in 1..Len(comps) : comps[i] \in {<<".">>, <<".", ".">>}

\* C29: a path with "." or ".." among its components is judged by the
\* place it names: the check answers as it answers for that place, so
\* zone/../other is outside the zone and other/../zone/./name is inside.
\* (A posix path that begins with exactly two slashes names another root
\* and is left out.)
C29_ResolvedForm ==
    ZoneChecked /\ DotSegments(last.args[1])
    /\ ~(os_name = "posix" /\ startswith(last.args[1], <<"/", "/">>)
         /\ ~startswith(last.args[1], <<"/", "/", "/">>)) =>
        last.result = in_zones(normcase(Resolved(last.args[1])), Zones)

\* C29 witness: with directory d the only zone, the path d/../dd, which
\* begins with the zone's directory, has been judged outside.
C29_Witness ==
    /\ ZoneChecked
    /\ SAFE_ZONES = Some(<< P(<< <<"d">> >>) >>)
    /\ last.args[1] = P(<< <<"d">>, <<".", ".">>, <<"d", "d">> >>)
    /\ startswith(last.args[1], P(<< <<"d">> >>) \o <<sep>>)
    /\ last.result = FALSE

\* With directory d the only zone, the path dd/../d/./d, which begins
\* outside the zone, has been judged inside.
C29_ReachedInside ==
    /\ ZoneChecked
    /\ SAFE_ZONES = Some(<< P(<< <<"d">> >>) >>)
    /\ last.args[1] = P(<< <<"d", "d">>, <<".", ".">>, <<"d">>, <<".">>, <<"d">> >>)
    /\ last.result = TRUE

----------------------------------------------------------------------------
(* Remote commands. *)

\* The first run of characters of a command that are not blanks, or the
\* empty str when the command has none.
FirstToken(command) ==
    LET solid == {i \in 1..Len(command) : ~is_space(command[i])}
        first == CHOOSE i \in solid : \A j \in solid : i <= j
        ends == {j \in first..Len(command) : \A k \in first..j : k \in solid}
        end == CHOOSE j \in ends : \A k \in ends : k <= j
    IN  IF solid = {} THEN <<>> ELSE SubSeq(command, first, end)

\* The names and the allowed commands of the ssh entry in force.
HostsConfigured == {ssh_hosts(SSH_CONFIG)[i][1] : i \in 1..Len(ssh_hosts(SSH_CONFIG))}
CommandsAllowed ==
    {ssh_allowed_commands(SSH_CONFIG)[i] :
        i \in 1..Len(ssh_allowed_commands(SSH_CONFIG))}

\* What ssh_execute did on the network.
Did(what) == \E i \in 1..Len(last.trace) : last.trace[i][1] = what

C30_UnknownHostFirst ==
    /\ last.op = "ssh_execute"
    /\ SSH_CONFIG.some
    /\ last.args[1] = "x"
    /\ last.args[2] = <<"r", "m">>
    /\ last.result[1] = "Error: Unknown host '"

=============================================================================
